---- MODULE Spec2Model ----
(***************************************************************************)
(* Office Hours Scheduler backend (src/src/backend/src): the date         *)
(* conversions, the occurrence generator, the overlay resolver and the     *)
(* materializer of recurrence.rs, assign and unassign of coverage.rs with  *)
(* their notifications, and the endpoints of lib.rs, over the stores of    *)
(* storage.rs.                                                             *)
(*                                                                         *)
(* Time.  The code counts instants in nanoseconds (u64) and a day is       *)
(* 86400 * 1_000_000_000 of them.  The model counts instants in ticks, a   *)
(* day being TicksPerDay ticks; every instant the model draws is a whole   *)
(* number of ticks, and the code's arithmetic on instants (max, min, +,    *)
(* /day, *day) commutes with that scaling.  Durations stay in minutes, as  *)
(* in EventSeries.default_duration_minutes.                                *)
(*                                                                         *)
(* Option<T> is a set with at most one element: None = {}, Some(x) = {x}.  *)
(***************************************************************************)
EXTENDS Integers, Sequences, FiniteSets, TLC

VARIABLES USERS, SETTINGS, NOTIFICATIONS, UUID_COUNTER,
          SERIES, OVERRIDES, INSTANCES, call, prev

vars == <<USERS, SETTINGS, NOTIFICATIONS, UUID_COUNTER,
          SERIES, OVERRIDES, INSTANCES, call, prev>>

\* ------------------------------------------------------------------ bounds

\* Ticks per day: the resolution of the model's instants.
TicksPerDay == 2

\* The last day (since the epoch) a query window of the model reaches.
MaxDay == 75

\* ------------------------------------------------------------- Option<T>

None == {}

Some(x) == {x}

\* Option::unwrap_or
unwrap_or(opt, default) == IF opt = {} THEN default ELSE CHOOSE x \in opt : TRUE

Max(a, b) == IF a >= b THEN a ELSE b

Min(a, b) == IF a <= b THEN a ELSE b

\* ------------------------------------------------------------------ types

Frequency == {"Weekly", "Biweekly", "Monthly"}

\* Weekday: Mon = 0 .. Sun = 6
Weekday == 0..6

\* WeekdayOrdinal: First = 1, Second = 2, Third = 3, Fourth = 4, Last = 5
WeekdayOrdinal == 1..5

Last == 5

\* --------------------------------------------------- calendar arithmetic

\* u64::MAX nanoseconds, in ticks: 2^64 ns = 213503.982 days.
U64_MAX == 213503 * TicksPerDay + (982 * TicksPerDay) \div 1000

\* u64 addition as the wasm release build performs it (wrapping).
u64_add(a, b) == (a + b) % (U64_MAX + 1)

nanos_to_days(nanos) == nanos \div TicksPerDay

\* (days as u64) * 86400 * 1_000_000_000, as the wasm release build
\* multiplies (wrapping)
days_to_nanos(days) == (days * TicksPerDay) % (U64_MAX + 1)

\* a calendar with a leap year every fourth year
is_leap_year_every_fourth(year) == year % 4 = 0

is_leap_year(year) == (year % 4 = 0 /\ year % 100 # 0) \/ (year % 400 = 0)

days_in_month(year, month) ==
    IF month \in {1, 3, 5, 7, 8, 10, 12} THEN 31
    ELSE IF month \in {4, 6, 9, 11} THEN 30
    ELSE IF month = 2 THEN (IF is_leap_year(year) THEN 29 ELSE 28)
    ELSE 0

days_in_year(y) == IF is_leap_year(y) THEN 366 ELSE 365

RECURSIVE days_before_year(_, _)
\* for y in from..year { days += 366 or 365 }: the sum of days_in_year over
\* from..year-1 (added up by halves, which keeps the evaluation shallow for
\* the 584 years a u64 instant spans)
days_before_year(from, year) ==
    IF from >= year THEN 0
    ELSE IF year = from + 1 THEN days_in_year(from)
    ELSE LET mid == (from + year) \div 2
         IN  days_before_year(from, mid) + days_before_year(mid, year)

\* passes of the year loop taken at once when none of them breaks
YearLoopStride == 32

RECURSIVE ymd_year_loop(_, _)
\* first loop of nanos_to_ymd: <<y, remaining>> when it breaks.  While the
\* next YearLoopStride years all fit into `remaining` the loop cannot break
\* in any of them, and those passes are taken together.
ymd_year_loop(y, remaining) ==
    IF remaining < days_in_year(y) THEN <<y, remaining>>
    ELSE IF remaining >= days_before_year(y, y + YearLoopStride)
    THEN ymd_year_loop(y + YearLoopStride,
                       remaining - days_before_year(y, y + YearLoopStride))
    ELSE ymd_year_loop(y + 1, remaining - days_in_year(y))

RECURSIVE ymd_month_loop(_, _, _)
\* second loop of nanos_to_ymd: <<m, remaining>> when it breaks
ymd_month_loop(y, m, remaining) ==
    IF remaining < days_in_month(y, m) THEN <<m, remaining>>
    ELSE ymd_month_loop(y, m + 1, remaining - days_in_month(y, m))

\* <<year, month, day>> of an instant
nanos_to_ymd(nanos) ==
    LET yr == ymd_year_loop(1970, nanos_to_days(nanos))
        mr == ymd_month_loop(yr[1], 1, yr[2])
    IN  <<yr[1], mr[1], mr[2] + 1>>

RECURSIVE days_before_month(_, _, _)
\* for m in from..month { days += days_in_month(year, m) }
days_before_month(year, from, month) ==
    IF from >= month THEN 0
    ELSE days_in_month(year, from) + days_before_month(year, from + 1, month)

\* the day count ymd_to_nanos hands to days_to_nanos
ymd_days(year, month, day) ==
    days_before_year(1970, year) + days_before_month(year, 1, month) + (day - 1)

ymd_to_nanos(year, month, day) == days_to_nanos(ymd_days(year, month, day))

\* 1970-01-01 was a Thursday (3)
weekday_from_nanos(nanos) == (((nanos_to_days(nanos) + 3) % 7) + 7) % 7

\* nth_weekday_of_month counting the ordinal from 0: (n - 1) * 7 written n * 7
nth_weekday_of_month_ordinal_from_zero(year, month, weekday, ordinal) ==
    IF ordinal \in 1..4
    THEN LET first_of_month == ymd_to_nanos(year, month, 1)
             first_wd == weekday_from_nanos(first_of_month)
             days_until == (weekday + 7 - first_wd) % 7
             target_day == 1 + days_until + ordinal * 7
         IN  IF target_day <= days_in_month(year, month)
             THEN Some(ymd_to_nanos(year, month, target_day))
             ELSE None
    ELSE LET last_day == days_in_month(year, month)
             last_of_month == ymd_to_nanos(year, month, last_day)
             last_wd == weekday_from_nanos(last_of_month)
             days_back == (last_wd + 7 - weekday) % 7
             target_day == last_day - days_back
         IN  Some(ymd_to_nanos(year, month, target_day))

\* Option<u64>: the instant of the nth (or last) `weekday` of the month
nth_weekday_of_month(year, month, weekday, ordinal) ==
    IF ordinal \in 1..4
    THEN LET first_of_month == ymd_to_nanos(year, month, 1)
             first_wd == weekday_from_nanos(first_of_month)
             days_until == (weekday + 7 - first_wd) % 7
             target_day == 1 + days_until + (ordinal - 1) * 7
         IN  IF target_day <= days_in_month(year, month)
             THEN Some(ymd_to_nanos(year, month, target_day))
             ELSE None
    ELSE LET last_day == days_in_month(year, month)
             last_of_month == ymd_to_nanos(year, month, last_day)
             last_wd == weekday_from_nanos(last_of_month)
             days_back == (last_wd + 7 - weekday) % 7
             target_day == last_day - days_back
         IN  Some(ymd_to_nanos(year, month, target_day))

\* ------------------------------------------------- occurrence generator

RECURSIVE monthly_loop_unfiltered(_, _, _, _, _, _, _, _)
\* monthly_loop without the test occ >= effective_start && occ < effective_end
monthly_loop_unfiltered(series, ordinal, year, month, end_ym, effective_start, effective_end, occurrences) ==
    IF year < end_ym[1] \/ (year = end_ym[1] /\ month <= end_ym[2])
    THEN LET nth == nth_weekday_of_month(year, month, series.weekday, ordinal)
             pushed == IF nth # None
                       THEN Append(occurrences, unwrap_or(nth, 0))
                       ELSE occurrences
         IN  IF month + 1 > 12
             THEN monthly_loop_unfiltered(series, ordinal, year + 1, 1, end_ym,
                                          effective_start, effective_end, pushed)
             ELSE monthly_loop_unfiltered(series, ordinal, year, month + 1, end_ym,
                                          effective_start, effective_end, pushed)
    ELSE occurrences

RECURSIVE monthly_loop(_, _, _, _, _, _, _, _)
\* the while loop of the Monthly arm of generate_occurrences
monthly_loop(series, ordinal, year, month, end_ym, effective_start, effective_end, occurrences) ==
    IF year < end_ym[1] \/ (year = end_ym[1] /\ month <= end_ym[2])
    THEN LET nth == nth_weekday_of_month(year, month, series.weekday, ordinal)
             pushed == IF nth # None
                          /\ unwrap_or(nth, 0) >= effective_start
                          /\ unwrap_or(nth, 0) < effective_end
                       THEN Append(occurrences, unwrap_or(nth, 0))
                       ELSE occurrences
         IN  IF month + 1 > 12
             THEN monthly_loop(series, ordinal, year + 1, 1, end_ym,
                               effective_start, effective_end, pushed)
             ELSE monthly_loop(series, ordinal, year, month + 1, end_ym,
                               effective_start, effective_end, pushed)
    ELSE occurrences

RECURSIVE weekly_loop(_, _, _, _, _)
\* the while loop of the Weekly | Biweekly arm of generate_occurrences
weekly_loop(series, occ, interval_nanos, effective_end, occurrences) ==
    IF occ < effective_end
    THEN weekly_loop(series, u64_add(occ, interval_nanos), interval_nanos, effective_end,
                     IF occ >= series.start_date THEN Append(occurrences, occ)
                     ELSE occurrences)
    ELSE occurrences

\* first_occ stepping back to the anchor weekday instead of forward
first_occ_backwards(series, effective_start) ==
    LET target_wd == series.weekday
        start_wd == weekday_from_nanos(effective_start)
        days_until == (start_wd + 7 - target_wd) % 7
    IN  u64_add(effective_start, days_until * TicksPerDay)

\* the first occurrence of the Weekly | Biweekly arm
first_occ(series, effective_start) ==
    LET target_wd == series.weekday
        start_wd == weekday_from_nanos(effective_start)
        days_until == (target_wd + 7 - start_wd) % 7
    IN  u64_add(effective_start, days_until * TicksPerDay)

interval_days(series) == IF series.frequency = "Biweekly" THEN 14 ELSE 7

\* a generator that yields nothing for a paused rule
generate_occurrences_unless_paused(series, window_start, window_end) ==
    IF series.paused THEN <<>> ELSE
    LET effective_start == Max(window_start, series.start_date)
        effective_end == IF series.end_date = None THEN window_end
                         ELSE Min(window_end, unwrap_or(series.end_date, 0))
    IN  IF effective_start >= effective_end THEN <<>>
        ELSE LET start_ym == nanos_to_ymd(effective_start)
                 end_ym == nanos_to_ymd(effective_end)
             IN  IF series.frequency = "Monthly"
                 THEN monthly_loop(series, unwrap_or(series.weekday_ordinal, 1),
                                   start_ym[1], start_ym[2], end_ym,
                                   effective_start, effective_end, <<>>)
                 ELSE weekly_loop(series, first_occ(series, effective_start),
                                  interval_days(series) * TicksPerDay,
                                  effective_end, <<>>)

\* Vec<u64>: all occurrence instants of a series within a window
generate_occurrences(series, window_start, window_end) ==
    LET effective_start == Max(window_start, series.start_date)
        effective_end == IF series.end_date = None THEN window_end
                         ELSE Min(window_end, unwrap_or(series.end_date, 0))
    IN  IF effective_start >= effective_end THEN <<>>
        ELSE LET start_ym == nanos_to_ymd(effective_start)
                 end_ym == nanos_to_ymd(effective_end)
             IN  IF series.frequency = "Monthly"
                 THEN monthly_loop(series, unwrap_or(series.weekday_ordinal, 1),
                                   start_ym[1], start_ym[2], end_ym,
                                   effective_start, effective_end, <<>>)
                 ELSE weekly_loop(series, first_occ(series, effective_start),
                                  interval_days(series) * TicksPerDay,
                                  effective_end, <<>>)

\* ------------------------------------------------------------ the stores

\* SERIES: StableBTreeMap<Uuid, EventSeries>, a function from the stored
\* series ids (integers, iterated in ascending order as the B-tree does).
EmptyMap == <<>>

\* the fields of EventSeries the generator and the resolvers read
EventSeries(id, frequency, weekday, ordinal, start_date, end_date, minutes, notes) ==
    [series_id |-> id, title |-> "Office Hours", notes |-> notes,
     frequency |-> frequency, weekday |-> weekday, weekday_ordinal |-> ordinal,
     start_date |-> start_date, end_date |-> end_date,
     default_duration_minutes |-> minutes, paused |-> FALSE]

\* minutes in one tick
MinutesPerTick == 1440 \div TicksPerDay

\* OVERRIDES: StableBTreeMap<OverrideKey, InstanceOverride>, a function
\* from the stored keys <<series_id, occurrence_start_utc>>.
OverrideKey(series_id, occurrence_start_utc) == <<series_id, occurrence_start_utc>>

InstanceOverride(sid, occ, start_utc, end_utc, notes, host, host_cleared, cancelled) ==
    [series_id |-> sid, occurrence_start_utc |-> occ,
     start_utc |-> start_utc, end_utc |-> end_utc, notes |-> notes,
     host_principal |-> host, host_cleared |-> host_cleared, cancelled |-> cancelled]

\* INSTANCES: StableBTreeMap<Uuid, EventInstance>, a function from the
\* stored one-off ids <<"uuid", n>>, iterated in ascending order of n.
Uuid(n) == <<"uuid", n>>

EventInstance(instance_id, series_id, start_utc, end_utc, title, notes, host, status) ==
    [instance_id |-> instance_id, series_id |-> series_id,
     start_utc |-> start_utc, end_utc |-> end_utc, title |-> title,
     notes |-> notes, host_principal |-> host, status |-> status]

\* Option<InstanceOverride>
get_override(key) == IF key \in DOMAIN OVERRIDES THEN Some(OVERRIDES[key]) ELSE None

\* Option<EventSeries>
get_series(series_id) == IF series_id \in DOMAIN SERIES THEN Some(SERIES[series_id]) ELSE None

\* Option<EventInstance>
get_instance(instance_id) ==
    IF instance_id \in DOMAIN INSTANCES THEN Some(INSTANCES[instance_id]) ELSE None

RECURSIVE ascending(_)
\* the elements of a finite set of integers, in ascending order
ascending(set) ==
    IF set = {} THEN <<>>
    ELSE LET least == CHOOSE a \in set : \A b \in set : a <= b
         IN  <<least>> \o ascending(set \ {least})

\* Vec<EventSeries>, in key order
list_all_series ==
    LET ids == ascending(DOMAIN SERIES)
    IN  [i \in 1..Len(ids) |-> SERIES[ids[i]]]

\* Vec<EventInstance>, in key order
list_all_instances ==
    LET ns == ascending({id[2] : id \in DOMAIN INSTANCES})
    IN  [i \in 1..Len(ns) |-> INSTANCES[Uuid(ns[i])]]

\* USERS: StableBTreeMap<Blob<29>, User>, a function from the stored
\* principals.  Of User the model keeps what the scheduling code reads or
\* writes: role, status, out-of-office blocks, the two notification
\* switches of assign/unassign, and last_active.
Role == {"Admin", "User"}

UserStatus == {"Active", "Disabled"}

OOOBlock(start_utc, end_utc) == [start_utc |-> start_utc, end_utc |-> end_utc]

NotificationSettings(email_on_assigned, email_on_removed) ==
    [email_on_assigned |-> email_on_assigned, email_on_removed |-> email_on_removed]

NotificationSettings_default == NotificationSettings(TRUE, TRUE)

User(principal, role, status, out_of_office, notification_settings, last_active) ==
    [principal |-> principal, role |-> role, status |-> status,
     out_of_office |-> out_of_office,
     notification_settings |-> notification_settings, last_active |-> last_active]

\* Option<User>
get_user(principal) == IF principal \in DOMAIN USERS THEN Some(USERS[principal]) ELSE None

\* SETTINGS: StableCell<GlobalSettings>
GlobalSettings(forward_window_months, claims_paused, default_event_duration_minutes) ==
    [forward_window_months |-> forward_window_months, claims_paused |-> claims_paused,
     default_event_duration_minutes |-> default_event_duration_minutes]

GlobalSettings_default == GlobalSettings(2, FALSE, 60)

get_settings == SETTINGS

\* NOTIFICATIONS: StableBTreeMap<Uuid, NotificationJob>, a function from
\* the stored job ids.  The ICS payload is kept as the instance id and the
\* interval it is generated from.
NotificationJob(job_id, notification_type, recipient_principal, instance_id, start_utc, end_utc) ==
    [job_id |-> job_id, notification_type |-> notification_type,
     recipient_principal |-> recipient_principal, instance_id |-> instance_id,
     start_utc |-> start_utc, end_utc |-> end_utc, status |-> "Pending"]

\* generate_uuid: the hash of (time, counter), modelled by the counter
\* value it consumes; UUID_COUNTER is the static counter it increments.
generate_uuid(counter) == Uuid(counter + 1)

\* --------------------------------------- overlay resolver, materializer

\* The first 16 bytes of SHA-256(series_id || occurrence_start): modelled as
\* the pair itself, an injective function of its two arguments.
generate_instance_id(series_id, occurrence_start) == <<"sha256", series_id, occurrence_start>>

\* (default_duration_minutes as u64) * 60 * 1_000_000_000, in ticks
duration_nanos(series) == series.default_duration_minutes \div MinutesPerTick

\* build_instance taking the default end from the overridden start
build_instance_end_from_start(series, occ_start, ovr) ==
    LET o == unwrap_or(ovr, [host_cleared |-> FALSE])
        start_utc == IF ovr # None /\ o.start_utc # None
                     THEN unwrap_or(o.start_utc, 0) ELSE occ_start
        end_utc == IF ovr # None /\ o.end_utc # None
                   THEN unwrap_or(o.end_utc, 0)
                   ELSE u64_add(start_utc, duration_nanos(series))
        notes == IF ovr # None /\ o.notes # None
                 THEN unwrap_or(o.notes, "") ELSE series.notes
        host_principal == IF ovr # None /\ o.host_cleared THEN None
                          ELSE IF ovr # None THEN o.host_principal ELSE None
    IN  EventInstance(generate_instance_id(series.series_id, occ_start),
                      Some(series.series_id), start_utc, end_utc,
                      series.title, notes, host_principal, "Active")

\* build_instance reading the assigned host without the host_cleared flag
build_instance_ignoring_cleared(series, occ_start, ovr) ==
    LET o == unwrap_or(ovr, [host_cleared |-> FALSE])
        start_utc == IF ovr # None /\ o.start_utc # None
                     THEN unwrap_or(o.start_utc, 0) ELSE occ_start
        end_utc == IF ovr # None /\ o.end_utc # None
                   THEN unwrap_or(o.end_utc, 0)
                   ELSE u64_add(occ_start, duration_nanos(series))
        notes == IF ovr # None /\ o.notes # None
                 THEN unwrap_or(o.notes, "") ELSE series.notes
        host_principal == IF ovr # None THEN o.host_principal ELSE None
    IN  EventInstance(generate_instance_id(series.series_id, occ_start),
                      Some(series.series_id), start_utc, end_utc,
                      series.title, notes, host_principal, "Active")

\* the EventInstance materialize_events builds for one occurrence that is
\* not cancelled; ovr is the Option<InstanceOverride> at its key
build_instance(series, occ_start, ovr) ==
    LET o == unwrap_or(ovr, [host_cleared |-> FALSE])
        start_utc == IF ovr # None /\ o.start_utc # None
                     THEN unwrap_or(o.start_utc, 0) ELSE occ_start
        end_utc == IF ovr # None /\ o.end_utc # None
                   THEN unwrap_or(o.end_utc, 0)
                   ELSE u64_add(occ_start, duration_nanos(series))
        notes == IF ovr # None /\ o.notes # None
                 THEN unwrap_or(o.notes, "") ELSE series.notes
        host_principal == IF ovr # None /\ o.host_cleared THEN None
                          ELSE IF ovr # None THEN o.host_principal ELSE None
    IN  EventInstance(generate_instance_id(series.series_id, occ_start),
                      Some(series.series_id), start_utc, end_utc,
                      series.title, notes, host_principal, "Active")

RECURSIVE push_occurrences_keeping_cancelled(_, _, _, _)
\* push_occurrences without the `continue` on a cancelled override
push_occurrences_keeping_cancelled(series, occurrences, i, results) ==
    IF i > Len(occurrences) THEN results
    ELSE LET occ_start == occurrences[i]
             ovr == get_override(OverrideKey(series.series_id, occ_start))
         IN  push_occurrences_keeping_cancelled(series, occurrences, i + 1,
                 Append(results, build_instance(series, occ_start, ovr)))

RECURSIVE push_occurrences(_, _, _, _)
\* the loop over the occurrences of one series: results after pushing the
\* instances of occurrences[i..]
push_occurrences(series, occurrences, i, results) ==
    IF i > Len(occurrences) THEN results
    ELSE LET occ_start == occurrences[i]
             ovr == get_override(OverrideKey(series.series_id, occ_start))
         IN  IF ovr # None /\ unwrap_or(ovr, [cancelled |-> FALSE]).cancelled
             THEN push_occurrences(series, occurrences, i + 1, results)
             ELSE push_occurrences(series, occurrences, i + 1,
                                   Append(results, build_instance(series, occ_start, ovr)))

RECURSIVE push_all_series(_, _, _, _, _)
\* the loop over storage::list_all_series()
push_all_series(all_series, i, window_start, window_end, results) ==
    IF i > Len(all_series) THEN results
    ELSE push_all_series(all_series, i + 1, window_start, window_end,
             push_occurrences(all_series[i],
                              generate_occurrences(all_series[i], window_start, window_end),
                              1, results))

\* is_one_off_in_window without the test of the status
is_one_off_in_window_any_status(inst, window_start, window_end) ==
    inst.start_utc >= window_start /\ inst.start_utc < window_end

\* the one-off events that materialize_events adds
is_one_off_in_window(inst, window_start, window_end) ==
    inst.start_utc >= window_start /\ inst.start_utc < window_end /\ inst.status = "Active"

push_one_offs(instances, window_start, window_end, results) ==
    results \o SelectSeq(instances, LAMBDA inst : is_one_off_in_window(inst, window_start, window_end))

\* sort_by_key left out: the results in the order they were pushed
sort_by_key_unsorted(results) == results

RECURSIVE sort_by_key(_)
\* Vec::sort_by_key(|e| e.start_utc): a stable sort (insertion of the last
\* element after every element that does not exceed it)
sort_by_key(results) ==
    IF Len(results) <= 1 THEN results
    ELSE LET sorted == sort_by_key(SubSeq(results, 1, Len(results) - 1))
             e == results[Len(results)]
             before == SelectSeq(sorted, LAMBDA x : x.start_utc <= e.start_utc)
             after == SelectSeq(sorted, LAMBDA x : x.start_utc > e.start_utc)
         IN  before \o <<e>> \o after

\* Vec<EventInstance>: all events within a time window
materialize_events(window_start, window_end) ==
    sort_by_key(
        push_one_offs(list_all_instances, window_start, window_end,
            push_all_series(list_all_series, 1, window_start, window_end, <<>>)))

RECURSIVE add_months(_, _, _)
\* for _ in 0..months { month += 1; if month > 12 { month = 1; year += 1 } }
add_months(year, month, months) ==
    IF months = 0 THEN <<year, month>>
    ELSE IF month + 1 > 12 THEN add_months(year + 1, 1, months - 1)
    ELSE add_months(year, month + 1, months - 1)

\* calculate_window_end: the last nanosecond of the month `months` after
\* the month of `from`.  The code returns the start of the month's last day
\* plus one day minus one nanosecond; the instants compared with it are
\* whole ticks t, for which t < end - 1ns exactly when t < end, so the
\* model keeps the bound at the start of the following day.
calculate_window_end(from, months) ==
    LET ymd == nanos_to_ymd(from)
        ym == add_months(ymd[1], ymd[2], months)
        last_day == days_in_month(ym[1], ym[2])
    IN  u64_add(ymd_to_nanos(ym[1], ym[2], last_day), days_to_nanos(1))

\* recurrence::list_unclaimed_events at time `now`
list_unclaimed_events(now) ==
    SelectSeq(materialize_events(now, calculate_window_end(now, get_settings.forward_window_months)),
              LAMBDA e : e.host_principal = None)

\* ApiResult<EventInstance> of coverage::get_event_instance: [ok |-> TRUE,
\* val |-> the instance] or [ok |-> FALSE, err |-> the ApiError]
Ok(v) == [ok |-> TRUE, val |-> v]

Err(e) == [ok |-> FALSE, err |-> e]

\* a variant of get_event_instance that resolves cancelled occurrences too
get_event_instance_ignoring_cancelled(series_id, occurrence_start, instance_id) ==
    IF series_id # None
    THEN IF occurrence_start = None THEN Err("InvalidInput")
         ELSE IF get_series(unwrap_or(series_id, 0)) = None THEN Err("NotFound")
         ELSE LET sid == unwrap_or(series_id, 0)
                  occ_start == unwrap_or(occurrence_start, 0)
                  series == unwrap_or(get_series(sid), 0)
                  ovr == get_override(OverrideKey(sid, occ_start))
                  o == unwrap_or(ovr, [cancelled |-> FALSE, host_cleared |-> FALSE])
              IN  IF FALSE THEN Err("NotFound")
                  ELSE LET start_utc == IF ovr # None /\ o.start_utc # None
                                        THEN unwrap_or(o.start_utc, 0) ELSE occ_start
                           end_utc == IF ovr # None /\ o.end_utc # None
                                      THEN unwrap_or(o.end_utc, 0)
                                      ELSE u64_add(occ_start, duration_nanos(series))
                           notes == IF ovr # None /\ o.notes # None
                                    THEN unwrap_or(o.notes, "") ELSE series.notes
                           host_principal == IF o.host_cleared THEN None
                                             ELSE IF ovr # None THEN o.host_principal
                                             ELSE None
                       IN  Ok(EventInstance(generate_instance_id(sid, occ_start), Some(sid),
                                            start_utc, end_utc, series.title, notes,
                                            host_principal, "Active"))
    ELSE IF get_instance(instance_id) = None THEN Err("NotFound")
         ELSE Ok(unwrap_or(get_instance(instance_id), 0))

\* a variant of get_event_instance whose default end is counted from the
\* effective start
get_event_instance_end_after_start(series_id, occurrence_start, instance_id) ==
    IF series_id # None
    THEN IF occurrence_start = None THEN Err("InvalidInput")
         ELSE IF get_series(unwrap_or(series_id, 0)) = None THEN Err("NotFound")
         ELSE LET sid == unwrap_or(series_id, 0)
                  occ_start == unwrap_or(occurrence_start, 0)
                  series == unwrap_or(get_series(sid), 0)
                  ovr == get_override(OverrideKey(sid, occ_start))
                  o == unwrap_or(ovr, [cancelled |-> FALSE, host_cleared |-> FALSE])
              IN  IF o.cancelled THEN Err("NotFound")
                  ELSE LET start_utc == IF ovr # None /\ o.start_utc # None
                                        THEN unwrap_or(o.start_utc, 0) ELSE occ_start
                           end_utc == IF ovr # None /\ o.end_utc # None
                                      THEN unwrap_or(o.end_utc, 0)
                                      ELSE u64_add(start_utc, duration_nanos(series))
                           notes == IF ovr # None /\ o.notes # None
                                    THEN unwrap_or(o.notes, "") ELSE series.notes
                           host_principal == IF o.host_cleared THEN None
                                             ELSE IF ovr # None THEN o.host_principal
                                             ELSE None
                       IN  Ok(EventInstance(generate_instance_id(sid, occ_start), Some(sid),
                                            start_utc, end_utc, series.title, notes,
                                            host_principal, "Active"))
    ELSE IF get_instance(instance_id) = None THEN Err("NotFound")
         ELSE Ok(unwrap_or(get_instance(instance_id), 0))

get_event_instance(series_id, occurrence_start, instance_id) ==
    IF series_id # None
    THEN IF occurrence_start = None THEN Err("InvalidInput")
         ELSE IF get_series(unwrap_or(series_id, 0)) = None THEN Err("NotFound")
         ELSE LET sid == unwrap_or(series_id, 0)
                  occ_start == unwrap_or(occurrence_start, 0)
                  series == unwrap_or(get_series(sid), 0)
                  ovr == get_override(OverrideKey(sid, occ_start))
                  o == unwrap_or(ovr, [cancelled |-> FALSE, host_cleared |-> FALSE])
              IN  IF o.cancelled THEN Err("NotFound")
                  ELSE LET start_utc == IF ovr # None /\ o.start_utc # None
                                        THEN unwrap_or(o.start_utc, 0) ELSE occ_start
                           end_utc == IF ovr # None /\ o.end_utc # None
                                      THEN unwrap_or(o.end_utc, 0)
                                      ELSE u64_add(occ_start, duration_nanos(series))
                           notes == IF ovr # None /\ o.notes # None
                                    THEN unwrap_or(o.notes, "") ELSE series.notes
                           host_principal == IF o.host_cleared THEN None
                                             ELSE IF ovr # None THEN o.host_principal
                                             ELSE None
                       IN  Ok(EventInstance(generate_instance_id(sid, occ_start), Some(sid),
                                            start_utc, end_utc, series.title, notes,
                                            host_principal, "Active"))
    ELSE IF get_instance(instance_id) = None THEN Err("NotFound")
         ELSE Ok(unwrap_or(get_instance(instance_id), 0))

\* ------------------------------------------------- auth.rs, coverage.rs

\* auth::require_authorized: the caller is a stored user with status Active
\* (the anonymous principal is never stored)
require_authorized(principal) ==
    /\ get_user(principal) # None
    /\ USERS[principal].status = "Active"

\* a variant of auth::is_admin that does not look at the role
is_admin_ignoring_role(principal) ==
    /\ get_user(principal) # None
    /\ USERS[principal].status = "Active"

\* auth::is_admin: a stored, active user with role Admin
is_admin(principal) ==
    /\ get_user(principal) # None
    /\ USERS[principal].role = "Admin"
    /\ USERS[principal].status = "Active"

\* auth::can_be_assigned_host: not disabled, and no out-of-office block
\* overlaps [event_start, event_end)
can_be_assigned_host(user, event_start, event_end) ==
    /\ user.status # "Disabled"
    /\ \A i \in DOMAIN user.out_of_office :
          ~ ( /\ event_start < user.out_of_office[i].end_utc
              /\ event_end > user.out_of_office[i].start_utc )

\* coverage::get_event_timing: ApiResult<(u64, u64)>, the interval tested
\* against the host's out-of-office blocks
get_event_timing(series_id, occurrence_start, instance_id) ==
    IF series_id # None
    THEN IF occurrence_start = None THEN Err("InvalidInput")
         ELSE IF get_series(unwrap_or(series_id, 0)) = None THEN Err("NotFound")
         ELSE LET sid == unwrap_or(series_id, 0)
                  occ_start == unwrap_or(occurrence_start, 0)
                  series == unwrap_or(get_series(sid), 0)
                  ovr == get_override(OverrideKey(sid, occ_start))
              IN  IF ovr # None
                  THEN LET o == unwrap_or(ovr, 0)
                           start == unwrap_or(o.start_utc, occ_start)
                           end == unwrap_or(o.end_utc, u64_add(start, duration_nanos(series)))
                       IN  Ok(<<start, end>>)
                  ELSE Ok(<<occ_start, u64_add(occ_start, duration_nanos(series))>>)
    ELSE IF get_instance(instance_id) = None THEN Err("NotFound")
         ELSE LET inst == unwrap_or(get_instance(instance_id), 0)
              IN  Ok(<<inst.start_utc, inst.end_utc>>)

\* the job a notification creator stores: insert_notification under a
\* fresh uuid
insert_notification(notification_type, host, instance_id, start_utc, end_utc) ==
    /\ NOTIFICATIONS' =
          (generate_uuid(UUID_COUNTER) :>
              NotificationJob(generate_uuid(UUID_COUNTER), notification_type,
                              host.principal, instance_id, start_utc, end_utc))
          @@ NOTIFICATIONS
    /\ UUID_COUNTER' = UUID_COUNTER + 1

\* notifications::create_host_assigned_notification
create_host_assigned_notification(host, instance_id, start_utc, end_utc) ==
    IF ~host.notification_settings.email_on_assigned
    THEN UNCHANGED <<NOTIFICATIONS, UUID_COUNTER>>
    ELSE insert_notification("HostAssigned", host, instance_id, start_utc, end_utc)

\* a host-removed notice that does not look at the recipient's settings
create_host_removed_notification_always(host, instance_id, start_utc, end_utc) ==
    insert_notification("HostRemoved", host, instance_id, start_utc, end_utc)

\* notifications::create_host_removed_notification
create_host_removed_notification(host, instance_id, start_utc, end_utc) ==
    IF ~host.notification_settings.email_on_removed
    THEN UNCHANGED <<NOTIFICATIONS, UUID_COUNTER>>
    ELSE insert_notification("HostRemoved", host, instance_id, start_utc, end_utc)

\* an assign and unassign that always start from a fresh record
override_always_new(sid, occ_start) ==
    InstanceOverride(sid, occ_start, None, None, None, None, FALSE, FALSE)

\* the override assign and unassign start from: the stored one, or a fresh
\* record with nothing overridden
override_or_new(sid, occ_start) ==
    unwrap_or(get_override(OverrideKey(sid, occ_start)),
              InstanceOverride(sid, occ_start, None, None, None, None, FALSE, FALSE))

\* storage::insert_override, as the store after the insertion
insert_override(ovr) ==
    (OverrideKey(ovr.series_id, ovr.occurrence_start_utc) :> ovr) @@ OVERRIDES

\* storage::insert_instance, as the store after the insertion
insert_instance(inst) == (inst.instance_id :> inst) @@ INSTANCES

\* the assignment written into an override (coverage.rs, assign_host)
set_host_keeping_cleared(ovr, host_principal) ==
    [ovr EXCEPT !.host_principal = Some(host_principal)]

set_host(ovr, host_principal) ==
    [ovr EXCEPT !.host_principal = Some(host_principal), !.host_cleared = FALSE]

\* the removal written into an override (coverage.rs, unassign_host)
clear_host_without_flag(ovr) ==
    [ovr EXCEPT !.host_principal = None]

clear_host(ovr) ==
    [ovr EXCEPT !.host_principal = None, !.host_cleared = TRUE]

\* what a request finds stored when it starts (recorded with the request,
\* for the properties that compare the stores before and after it)
stores_before ==
    [OVERRIDES |-> OVERRIDES, INSTANCES |-> INSTANCES, NOTIFICATIONS |-> NOTIFICATIONS]

\* an early return of assign_host or unassign_host: nothing is written
coverage_return(c, result) ==
    /\ call' = [c EXCEPT !.ret = result]
    /\ UNCHANGED <<OVERRIDES, INSTANCES, NOTIFICATIONS, UUID_COUNTER>>

\* coverage::assign_host.  The result is read back from the stores as the
\* writes left them (get_event_instance in the next state).
assign_host(series_id, occurrence_start, instance_id, host_principal, caller, admin_override) ==
    LET c == [op |-> "assign_host", series_id |-> series_id,
              occurrence_start |-> occurrence_start, instance_id |-> instance_id,
              host_principal |-> host_principal, caller |-> caller,
              admin_override |-> admin_override, before |-> stores_before,
              ret |-> Err("none")]
        settings == get_settings
        timing == get_event_timing(series_id, occurrence_start, instance_id)
    IN  /\ UNCHANGED <<SERIES, SETTINGS, prev>>
        /\ IF settings.claims_paused /\ ~is_admin(caller)
           THEN coverage_return(c, Err("Conflict"))
           ELSE IF get_user(host_principal) = None
           THEN coverage_return(c, Err("NotFound"))
           ELSE IF ~timing.ok
           THEN coverage_return(c, timing)
           ELSE LET host_user == unwrap_or(get_user(host_principal), 0)
                    event_start == timing.val[1]
                    event_end == timing.val[2]
                IN  IF ~admin_override
                       /\ ~can_be_assigned_host(host_user, event_start, event_end)
                    THEN coverage_return(c, Err("Conflict"))
                    ELSE IF series_id # None
                    THEN LET sid == unwrap_or(series_id, 0)
                             occ_start == unwrap_or(occurrence_start, 0)
                             ovr == set_host(override_or_new(sid, occ_start), host_principal)
                         IN  /\ OVERRIDES' = insert_override(ovr)
                             /\ UNCHANGED INSTANCES
                             /\ create_host_assigned_notification(
                                    host_user, instance_id, event_start, event_end)
                             /\ call' = [c EXCEPT !.ret =
                                    get_event_instance(series_id, occurrence_start,
                                                       instance_id)']
                    ELSE LET inst == unwrap_or(get_instance(instance_id), 0)
                         IN  /\ INSTANCES' = insert_instance(
                                    [inst EXCEPT !.host_principal = Some(host_principal)])
                             /\ UNCHANGED OVERRIDES
                             /\ create_host_assigned_notification(
                                    host_user, instance_id, event_start, event_end)
                             /\ call' = [c EXCEPT !.ret =
                                    get_event_instance(series_id, occurrence_start,
                                                       instance_id)']

\* the host-removed notice of unassign_host: for a previous host that is
\* still a stored user
notify_previous_host(previous_host, instance_id, event_start, event_end) ==
    IF previous_host # None /\ get_user(unwrap_or(previous_host, 0)) # None
    THEN create_host_removed_notification(
             unwrap_or(get_user(unwrap_or(previous_host, 0)), 0),
             instance_id, event_start, event_end)
    ELSE UNCHANGED <<NOTIFICATIONS, UUID_COUNTER>>

\* coverage::unassign_host
unassign_host(series_id, occurrence_start, instance_id, caller) ==
    LET c == [op |-> "unassign_host", series_id |-> series_id,
              occurrence_start |-> occurrence_start, instance_id |-> instance_id,
              caller |-> caller, before |-> stores_before, ret |-> Err("none")]
        settings == get_settings
        timing == get_event_timing(series_id, occurrence_start, instance_id)
        previous_instance == get_event_instance(series_id, occurrence_start, instance_id)
    IN  /\ UNCHANGED <<SERIES, SETTINGS, prev>>
        /\ IF settings.claims_paused /\ ~is_admin(caller)
           THEN coverage_return(c, Err("Conflict"))
           ELSE IF ~timing.ok
           THEN coverage_return(c, timing)
           ELSE IF ~previous_instance.ok
           THEN coverage_return(c, previous_instance)
           ELSE LET event_start == timing.val[1]
                    event_end == timing.val[2]
                    previous_host == previous_instance.val.host_principal
                IN  IF series_id # None
                    THEN LET sid == unwrap_or(series_id, 0)
                             occ_start == unwrap_or(occurrence_start, 0)
                             ovr == clear_host(override_or_new(sid, occ_start))
                         IN  /\ OVERRIDES' = insert_override(ovr)
                             /\ UNCHANGED INSTANCES
                             /\ notify_previous_host(previous_host, instance_id,
                                                     event_start, event_end)
                             /\ call' = [c EXCEPT !.ret =
                                    get_event_instance(series_id, occurrence_start,
                                                       instance_id)']
                    ELSE LET inst == unwrap_or(get_instance(instance_id), 0)
                         IN  /\ INSTANCES' = insert_instance(
                                    [inst EXCEPT !.host_principal = None])
                             /\ UNCHANGED OVERRIDES
                             /\ notify_previous_host(previous_host, instance_id,
                                                     event_start, event_end)
                             /\ call' = [c EXCEPT !.ret =
                                    get_event_instance(series_id, occurrence_start,
                                                       instance_id)']

\* ------------------------------------- SpecGen: the occurrence generator
\* The generator is a pure function of a series and a window.  SpecGen
\* draws one series from GenSeries and applies generate_occurrences to
\* windows drawn from GenWindows, remembering the previous application.

Days(d) == d * TicksPerDay

\* T0 of the end-to-end example: Wednesday 1970-01-07, one tick past midnight
T0 == Days(6) + 1

\* 1972-01-01, the first day of the first leap year after the epoch
Year1972 == 365 + 365

GenStarts == {0, T0}

GenEnds == {None, Some(Days(45)), Some(Days(Year1972 + 100))}

GenSeries ==
    { EventSeries(1, f, wd, None, s, e, MinutesPerTick, "rule notes") :
        f \in {"Weekly", "Biweekly"}, wd \in Weekday, s \in GenStarts, e \in GenEnds }
    \cup
    { EventSeries(1, "Monthly", wd, Some(o), s, e, MinutesPerTick, "rule notes") :
        wd \in Weekday, o \in WeekdayOrdinal, s \in GenStarts, e \in GenEnds }

GenWindows ==
    { <<ws, we>> : ws \in {0, 1, Days(7), T0}, we \in {T0 + Days(21), Days(MaxDay)} }
    \cup { <<Days(7), Days(7)>> }
    \cup { <<Days(Year1972), Days(Year1972 + 121)>>,
           <<Days(Year1972 + 35) + 1, Days(Year1972 + 121)>> }

InitGen ==
    /\ USERS = EmptyMap
    /\ SETTINGS = GlobalSettings_default
    /\ NOTIFICATIONS = EmptyMap
    /\ UUID_COUNTER = 0
    /\ \E s \in GenSeries : SERIES = (1 :> s)
    /\ OVERRIDES = EmptyMap
    /\ INSTANCES = EmptyMap
    /\ call = [op |-> "none"]
    /\ prev = [op |-> "none"]

\* one application of generate_occurrences to a stored series
GenerateOccurrences(sid, window_start, window_end) ==
    /\ sid \in DOMAIN SERIES
    /\ call' = [op |-> "generate_occurrences", series_id |-> sid,
                window_start |-> window_start, window_end |-> window_end,
                ret |-> generate_occurrences(SERIES[sid], window_start, window_end)]
    /\ prev' = call
    /\ UNCHANGED <<USERS, SETTINGS, NOTIFICATIONS, UUID_COUNTER, SERIES, OVERRIDES, INSTANCES>>

NextGen == \E w \in GenWindows : GenerateOccurrences(1, w[1], w[2])

SpecGen == InitGen /\ [][NextGen]_vars

\* ---------------------------------------------- claims on the generator

Range(seq) == {seq[i] : i \in DOMAIN seq}

IsGen(c) == c.op = "generate_occurrences"

\* the series a recorded application was about
SeriesOf(c) == SERIES[c.series_id]

\* [max(window_start, rule.start), min(window_end, rule.end or +infinity))
EffStart(c) == Max(c.window_start, SeriesOf(c).start_date)

EffEnd(c) ==
    IF SeriesOf(c).end_date = None THEN c.window_end
    ELSE Min(c.window_end, unwrap_or(SeriesOf(c).end_date, 0))

InEffWindow(c, t) == EffStart(c) <= t /\ t < EffEnd(c)

StrictlyIncreasing(seq) == \A i \in 1..(Len(seq) - 1) : seq[i] < seq[i + 1]

\* day since the epoch and weekday (0 = Monday, day 0 = Thursday) of an
\* instant, stated without the code's helpers
DayOf(t) == t \div TicksPerDay

WeekdayOf(t) == (DayOf(t) + 3) % 7

\* C1: for a fixed Weekly or Biweekly rule, an instant lying in the effective
\* windows of two queries is generated for one if and only if it is generated
\* for the other (the occurrence instants do not shift with window_start).
C1_WindowIndependent ==
    (IsGen(call) /\ IsGen(prev) /\ SeriesOf(call).frequency \in {"Weekly", "Biweekly"})
    => \A t \in Range(call.ret) \cup Range(prev.ret) :
          (InEffWindow(call, t) /\ InEffWindow(prev, t))
          => (t \in Range(call.ret) <=> t \in Range(prev.ret))

\* the day of the rule's first occurrence: the first day at or after the
\* day of rule.start that falls on the anchor weekday
FirstOccurrenceDay(series) ==
    DayOf(series.start_date) + ((series.weekday + 7 - WeekdayOf(series.start_date)) % 7)

\* C2: every occurrence of a Biweekly rule, for any window, lies a whole
\* multiple of 14 days after the rule's first occurrence (stated on days, so
\* that only the fortnight's phase is at stake, not the time of day).
C2_BiweeklyPhaseLocked ==
    (IsGen(call) /\ SeriesOf(call).frequency = "Biweekly")
    => \A t \in Range(call.ret) :
          (DayOf(t) - FirstOccurrenceDay(SeriesOf(call))) % 14 = 0

\* C3: generate_occurrences returns a strictly increasing list of instants
\* t with max(window_start, rule.start) <= t < min(window_end, rule.end or
\* +infinity), and the empty list when that interval is empty.
C3_OrderedWithinWindow ==
    IsGen(call)
    => /\ StrictlyIncreasing(call.ret)
       /\ \A t \in Range(call.ret) : InEffWindow(call, t)
       /\ (EffStart(call) >= EffEnd(call) => call.ret = <<>>)

\* C3 witness: a window that starts after the rule and is cut by the rule's
\* end, with several occurrences returned.
C3_Witness ==
    /\ IsGen(call)
    /\ Len(call.ret) >= 2
    /\ call.window_start > SeriesOf(call).start_date
    /\ SeriesOf(call).end_date # None
    /\ unwrap_or(SeriesOf(call).end_date, 0) < call.window_end

\* C4: every occurrence of a Weekly or Biweekly rule falls on the anchor
\* weekday, consecutive occurrences are exactly 7 (Weekly) or 14 (Biweekly)
\* days apart, and a Weekly Wednesday rule starting at the Wednesday instant
\* T0 queried over [T0, T0 + 21d) yields exactly T0, T0 + 7d, T0 + 14d.
C4_WeekdayAndSpacing ==
    (IsGen(call) /\ SeriesOf(call).frequency \in {"Weekly", "Biweekly"})
    => LET r == call.ret
           step == IF SeriesOf(call).frequency = "Weekly" THEN Days(7) ELSE Days(14)
       IN  /\ \A t \in Range(r) : WeekdayOf(t) = SeriesOf(call).weekday
           /\ \A i \in 1..(Len(r) - 1) : r[i + 1] - r[i] = step
           /\ (/\ SeriesOf(call).frequency = "Weekly"
               /\ SeriesOf(call).weekday = 2
               /\ SeriesOf(call).start_date = T0
               /\ SeriesOf(call).end_date = None
               /\ call.window_start = T0
               /\ call.window_end = T0 + Days(21))
              => r = <<T0, T0 + Days(7), T0 + Days(14)>>

\* C4 witness: the end-to-end example has been queried.
C4_Witness ==
    /\ IsGen(call)
    /\ SeriesOf(call).frequency = "Weekly"
    /\ SeriesOf(call).weekday = 2
    /\ SeriesOf(call).start_date = T0
    /\ SeriesOf(call).end_date = None
    /\ call.window_start = T0
    /\ call.window_end = T0 + Days(21)
    /\ Len(call.ret) = 3

\* The civil calendar, stated apart from the code: <<first day, first day of
\* the next month>> (days since the epoch) of January to March 1970 and of
\* January to April 1972 (February 1972 has 29 days).
MonthsOfModel ==
    { <<0, 31>>, <<31, 59>>, <<59, 90>>,
      <<730, 761>>, <<761, 790>>, <<790, 821>>, <<821, 851>> }

\* the occurrences of a list that lie in month m
InMonth(seq, m) == {t \in Range(seq) : Days(m[1]) <= t /\ t < Days(m[2])}

\* month m lies wholly inside the effective window of an application
WhollyInside(c, m) == EffStart(c) <= Days(m[1]) /\ Days(m[2]) <= EffEnd(c)

\* t is midnight of the Nth (or last) `wd` of month m
IsNthWeekday(t, m, wd, ordinal) ==
    LET dom == DayOf(t) - m[1] + 1
        len == m[2] - m[1]
    IN  /\ t % TicksPerDay = 0
        /\ WeekdayOf(t) = wd
        /\ IF ordinal = Last THEN dom > len - 7 /\ dom <= len
           ELSE 1 + 7 * (ordinal - 1) <= dom /\ dom <= 7 * ordinal

\* C5: for a Monthly rule with an ordinal, every calendar month wholly inside
\* the effective window contributes exactly one occurrence, at midnight of
\* the Nth (or last) anchor weekday of that month; no month contributes more
\* than one, and the occurrences are strictly increasing.
C5_MonthlyOnePerMonth ==
    (IsGen(call) /\ SeriesOf(call).frequency = "Monthly"
                 /\ SeriesOf(call).weekday_ordinal # None)
    => LET r == call.ret
           s == SeriesOf(call)
       IN  /\ StrictlyIncreasing(r)
           /\ \A k \in MonthsOfModel :
                 /\ Cardinality(InMonth(r, k)) <= 1
                 /\ WhollyInside(call, k) => Cardinality(InMonth(r, k)) = 1
                 /\ \A t \in InMonth(r, k) :
                       IsNthWeekday(t, k, s.weekday, unwrap_or(s.weekday_ordinal, 0))

\* C5 witness: a Monthly "last weekday" rule queried over a window holding
\* the whole of February 1972 (29 days) and of April 1972 (30 days), one
\* occurrence returned for each.
C5_Witness ==
    /\ IsGen(call)
    /\ SeriesOf(call).frequency = "Monthly"
    /\ SeriesOf(call).weekday_ordinal = Some(Last)
    /\ WhollyInside(call, <<761, 790>>) /\ WhollyInside(call, <<821, 851>>)
    /\ Cardinality(InMonth(call.ret, <<761, 790>>)) = 1
    /\ Cardinality(InMonth(call.ret, <<821, 851>>)) = 1

\* ------------------------- SpecMat: the overlay resolver and materializer
\* materialize_events and get_event_instance are reads: functions of the
\* three stores and of their arguments.  SpecMat draws the stores from the
\* sets below (records of the stored types, as any sequence of writes of
\* the stored types may have left them) and applies the two functions.

\* Weekly on Thursday from the epoch: occurrences at day 0, 7, 14, ...
ThursdayRule == EventSeries(1, "Weekly", 3, None, 0, None, 2 * MinutesPerTick, "rule notes")

\* Monthly on the first Monday, from the epoch: 1970-01-05, 1970-02-02
FirstMondayRule ==
    EventSeries(2, "Monthly", 0, Some(1), 0, None, MinutesPerTick, "monthly notes")

\* the same rule stored under the lower id, so that its sessions are
\* pushed before the Thursday rule's
FirstMondayRuleAs(id) == [FirstMondayRule EXCEPT !.series_id = id]

MatSeriesStores ==
    { (1 :> ThursdayRule),
      (1 :> ThursdayRule) @@ (2 :> FirstMondayRule),
      (1 :> FirstMondayRuleAs(1)) @@ (2 :> [ThursdayRule EXCEPT !.series_id = 2]) }

Principals == {"alice", "bob"}

\* occurrence keys: two instants the Thursday rule generates, and one
\* (day 4, the first Monday of 1970) that the monthly rule generates
MatKeyInstants == {0, Days(7), Days(4)}

\* the overrides of one key: not cancelled, with each optional field absent
\* or present and the cleared flag clear or set; and cancelled
MatOverridesAt(sid, occ) ==
    { InstanceOverride(sid, occ, st, en, no, ho, cl, FALSE) :
        st \in {None, Some(Days(9) + 1)},
        en \in {None, Some(Days(10))},
        no \in {None, Some("override notes")},
        ho \in {None, Some("alice")},
        cl \in BOOLEAN }
    \cup
    { InstanceOverride(sid, occ, None, None, None, ho, FALSE, TRUE) :
        ho \in {None, Some("alice")} }

\* the overrides a second key holds when two keys are overridden
MatSecondOverridesAt(sid, occ) ==
    { InstanceOverride(sid, occ, None, None, None, None, FALSE, TRUE),
      InstanceOverride(sid, occ, Some(1), None, None, Some("bob"), FALSE, FALSE) }

MatOverrideStores ==
    {EmptyMap}
    \cup { (OverrideKey(o.series_id, o.occurrence_start_utc) :> o) :
             o \in MatOverridesAt(1, 0) \cup MatOverridesAt(1, Days(4)) }
    \cup { (OverrideKey(a.series_id, a.occurrence_start_utc) :> a)
           @@ (OverrideKey(b.series_id, b.occurrence_start_utc) :> b) :
             a \in MatOverridesAt(1, 0), b \in MatSecondOverridesAt(1, Days(7)) }

OneOff(n, start_utc, host, status) ==
    EventInstance(Uuid(n), None, start_utc, start_utc + 1, "One-off", "one-off notes",
                  host, status)

MatInstanceStores ==
    {EmptyMap}
    \cup { (Uuid(1) :> OneOff(1, st, Some("bob"), status)) :
             st \in {Days(3), Days(7)}, status \in {"Active", "Cancelled"} }
    \cup { (Uuid(1) :> OneOff(1, Days(14), None, "Active")) }
    \cup { (Uuid(1) :> OneOff(1, Days(7), None, "Active"))
           @@ (Uuid(2) :> OneOff(2, Days(3), None, "Active")) }

MatWindows == { <<0, Days(14)>>, <<1, Days(10)>>, <<Days(3), Days(7)>> }

InitMat ==
    /\ USERS = EmptyMap
    /\ SETTINGS = GlobalSettings_default
    /\ NOTIFICATIONS = EmptyMap
    /\ UUID_COUNTER = 0
    /\ SERIES \in MatSeriesStores
    /\ OVERRIDES \in MatOverrideStores
    /\ INSTANCES \in MatInstanceStores
    /\ call = [op |-> "none"]
    /\ prev = [op |-> "none"]

\* a list_events that drops the one-off sessions it has returned
MaterializeEvents_consuming(window_start, window_end) ==
    /\ call' = [op |-> "materialize_events",
                window_start |-> window_start, window_end |-> window_end,
                ret |-> materialize_events(window_start, window_end)]
    /\ INSTANCES' = EmptyMap
    /\ UNCHANGED <<USERS, SETTINGS, NOTIFICATIONS, UUID_COUNTER, SERIES, OVERRIDES, prev>>

\* list_events / list_events_public: one application of materialize_events
MaterializeEvents(window_start, window_end) ==
    /\ call' = [op |-> "materialize_events",
                window_start |-> window_start, window_end |-> window_end,
                ret |-> materialize_events(window_start, window_end)]
    /\ UNCHANGED <<USERS, SETTINGS, NOTIFICATIONS, UUID_COUNTER, SERIES, OVERRIDES, INSTANCES, prev>>

\* one application of coverage::get_event_instance
GetEventInstance(series_id, occurrence_start, instance_id) ==
    /\ call' = [op |-> "get_event_instance", series_id |-> series_id,
                occurrence_start |-> occurrence_start, instance_id |-> instance_id,
                ret |-> get_event_instance(series_id, occurrence_start, instance_id)]
    /\ UNCHANGED <<USERS, SETTINGS, NOTIFICATIONS, UUID_COUNTER, SERIES, OVERRIDES, INSTANCES, prev>>

NextMat ==
    \/ \E w \in MatWindows : MaterializeEvents(w[1], w[2])
    \/ \E occ \in MatKeyInstants :
          GetEventInstance(Some(1), Some(occ), generate_instance_id(1, occ))
    \/ GetEventInstance(None, None, Uuid(1))

SpecMat == InitMat /\ [][NextMat]_vars

\* ------------------------------------ SpecCov: assign_host, unassign_host
\* coverage::assign_host and coverage::unassign_host applied to stores
\* drawn from the sets below, together with the reads.  The occurrence key
\* the requests name is (rule 1, day 7); what rule 1 is, what is stored
\* under that key, and who the host is, vary with the initial state.

\* the most notification jobs the outbox holds
MaxJobs == 1

\* the instant every request on a recurring occurrence names: Thursday
\* 1970-01-08, the second Thursday of the month
CovOcc == Days(7)

\* rules stored under id 1 that generate CovOcc
CovGeneratingRules ==
    { EventSeries(1, "Weekly", 3, None, 0, None, 2 * MinutesPerTick, "rule notes"),
      EventSeries(1, "Monthly", 3, Some(2), 0, None, 2 * MinutesPerTick, "rule notes") }

\* rules stored under id 1 that do not generate CovOcc: wrong weekday,
\* wrong ordinal, starting after it, ending at it
CovOtherRules ==
    { EventSeries(1, "Weekly", 4, None, 0, None, 2 * MinutesPerTick, "rule notes"),
      EventSeries(1, "Monthly", 3, Some(1), 0, None, 2 * MinutesPerTick, "rule notes"),
      EventSeries(1, "Weekly", 3, None, Days(8), None, 2 * MinutesPerTick, "rule notes"),
      EventSeries(1, "Biweekly", 3, None, 0, Some(CovOcc), 2 * MinutesPerTick, "rule notes") }

\* the overrides stored under the key: a host assigned, explicitly
\* cleared, cancelled, and with start, end or notes overridden
CovOverrides ==
    { InstanceOverride(1, CovOcc, None, None, None, Some("alice"), FALSE, FALSE),
      InstanceOverride(1, CovOcc, None, None, None, Some("bob"), FALSE, FALSE),
      InstanceOverride(1, CovOcc, None, None, None, None, TRUE, FALSE),
      InstanceOverride(1, CovOcc, None, None, None, None, FALSE, TRUE),
      InstanceOverride(1, CovOcc, None, None, None, Some("bob"), FALSE, TRUE),
      InstanceOverride(1, CovOcc, Some(CovOcc + 1), None, None, Some("bob"), FALSE, FALSE),
      InstanceOverride(1, CovOcc, Some(CovOcc + 1), Some(Days(9)), Some("override notes"),
                       None, TRUE, FALSE),
      InstanceOverride(1, CovOcc, None, Some(Days(9)), None, None, FALSE, FALSE),
      InstanceOverride(1, CovOcc, None, None, None, Some("mallory"), FALSE, FALSE) }

\* an override of another occurrence of rule 1 and one of another rule
CovBystanders ==
    (OverrideKey(1, Days(14)) :>
        InstanceOverride(1, Days(14), None, None, None, Some("bob"), FALSE, FALSE))
    @@ (OverrideKey(2, CovOcc) :>
        InstanceOverride(2, CovOcc, None, None, None, None, TRUE, FALSE))

CovOverrideStores ==
    {EmptyMap, CovBystanders}
    \cup { (OverrideKey(1, CovOcc) :> o) @@ CovBystanders : o \in CovOverrides }

\* the one-off session Uuid(1), on [CovOcc, CovOcc + 2)
CovOneOff(host, status) ==
    (Uuid(1) :> EventInstance(Uuid(1), None, CovOcc, CovOcc + 2, "One-off",
                              "one-off notes", host, status))

CovInstanceStores ==
    { CovOneOff(None, "Active"), CovOneOff(Some("bob"), "Active"),
      CovOneOff(Some("bob"), "Cancelled") }

\* the out-of-office lists of the host: none, exactly the session
\* [CovOcc, CovOcc + 2), a block ending where the session starts, a block
\* starting where the session ends, and a block inside a longer list
CovOutOfOffice ==
    { <<>>,
      <<OOOBlock(CovOcc, CovOcc + 2)>>,
      <<OOOBlock(CovOcc - 2, CovOcc)>>,
      <<OOOBlock(CovOcc + 2, CovOcc + 4)>>,
      <<OOOBlock(0, 1), OOOBlock(CovOcc + 1, CovOcc + 3)>> }

\* "root" is an active administrator, "bob" an active member; "alice" varies
CovUsers(alice) ==
    ("root" :> User("root", "Admin", "Active", <<>>, NotificationSettings_default, 0))
    @@ ("bob" :> User("bob", "User", "Active", <<>>, NotificationSettings(FALSE, TRUE), 0))
    @@ ("alice" :> alice)

PlainAlice == User("alice", "User", "Active", <<>>, NotificationSettings_default, 0)

CovAlices ==
    { User("alice", "User", status, ooo, NotificationSettings_default, 0) :
        status \in UserStatus, ooo \in CovOutOfOffice }
    \cup { User("alice", "User", "Active", <<>>, NotificationSettings(FALSE, FALSE), 0) }

InitCov ==
    /\ UUID_COUNTER = 0
    /\ NOTIFICATIONS = EmptyMap
    /\ call = [op |-> "none"]
    /\ prev = [op |-> "none"]
    /\ SETTINGS \in {GlobalSettings(2, paused, 60) : paused \in BOOLEAN}
    /\ \/ /\ USERS = CovUsers(PlainAlice)
          /\ SERIES \in {(1 :> r) : r \in CovGeneratingRules \cup CovOtherRules}
          /\ OVERRIDES = EmptyMap
          /\ INSTANCES \in CovInstanceStores
       \/ /\ USERS = CovUsers(PlainAlice)
          /\ SERIES \in {(1 :> r) : r \in CovGeneratingRules}
          /\ OVERRIDES \in CovOverrideStores
          /\ INSTANCES = CovOneOff(Some("bob"), "Active")
       \/ /\ USERS \in {CovUsers(a) : a \in CovAlices}
          /\ SERIES \in {(1 :> r) : r \in CovGeneratingRules}
          /\ OVERRIDES \in {EmptyMap}
                \cup { (OverrideKey(1, CovOcc) :> o) :
                          o \in {x \in CovOverrides : \/ x.start_utc # None
                                                      \/ x.host_cleared
                                                      \/ x.host_principal = Some("alice")} }
          /\ INSTANCES = CovOneOff(None, "Active")

\* the targets a request names: the occurrence key, a rule that is not
\* stored, a recurring target without occurrence_start, the one-off, and a
\* one-off that is not stored
CovTargets ==
    { <<Some(1), Some(CovOcc), generate_instance_id(1, CovOcc)>>,
      <<Some(3), Some(CovOcc), generate_instance_id(3, CovOcc)>>,
      <<Some(1), None, generate_instance_id(1, CovOcc)>>,
      <<None, None, Uuid(1)>>,
      <<None, None, Uuid(2)>> }

\* the callers (the endpoints of lib.rs pass on authorized callers only),
\* and the hosts ("mallory" is not a stored user)
CovCallers == {"root", "alice"}

CovHosts == {"alice", "mallory"}

AssignHostCov(t, host_principal, caller, admin_override) ==
    /\ require_authorized(caller)
    /\ UUID_COUNTER < MaxJobs
    /\ assign_host(t[1], t[2], t[3], host_principal, caller, admin_override)
    /\ UNCHANGED USERS

UnassignHostCov(t, caller) ==
    /\ require_authorized(caller)
    /\ UUID_COUNTER < MaxJobs
    /\ unassign_host(t[1], t[2], t[3], caller)
    /\ UNCHANGED USERS

\* list_unclaimed_events at time `now`
ListUnclaimedEvents(now) ==
    /\ call' = [op |-> "list_unclaimed_events", now |-> now,
                ret |-> list_unclaimed_events(now)]
    /\ UNCHANGED <<USERS, SETTINGS, NOTIFICATIONS, UUID_COUNTER, SERIES, OVERRIDES, INSTANCES, prev>>

NextCov ==
    \/ \E t \in CovTargets, h \in CovHosts, c \in CovCallers, ao \in BOOLEAN :
          AssignHostCov(t, h, c, ao)
    \/ \E t \in CovTargets, c \in CovCallers : UnassignHostCov(t, c)
    \/ \E w \in {<<0, Days(14)>>, <<CovOcc, CovOcc + 1>>} : MaterializeEvents(w[1], w[2])
    \/ ListUnclaimedEvents(1)

SpecCov == InitCov /\ [][NextCov]_vars

\* ------------------------------------------- Spec: the endpoints of lib.rs
\* The canister after init(), driven through its update and query
\* endpoints.  Every endpoint is one atomic step (a canister message),
\* called by a principal of Callers; `call` records the request and the
\* answer.

\* the most values generate_uuid hands out (rule, one-off and job ids)
MaxUuid == 2

\* ic_cdk::api::time() as the requests see it
Now == 1

\* auth::require_admin: an authorized caller with role Admin
require_admin(principal) ==
    /\ require_authorized(principal)
    /\ USERS[principal].role = "Admin"

\* auth::touch_last_active, as the user store after it
touch_last_active(principal) ==
    IF get_user(principal) # None
    THEN [USERS EXCEPT ![principal].last_active = Now]
    ELSE USERS

\* an endpoint answers without writing anything
respond(c, result) ==
    /\ call' = [c EXCEPT !.ret = result]
    /\ UNCHANGED <<USERS, SETTINGS, NOTIFICATIONS, UUID_COUNTER,
                   SERIES, OVERRIDES, INSTANCES, prev>>

\* ic_cdk::api::time() when init() ran: before the time of every request
DeployTime == 0

\* init(): the deployer is the first administrator
Init ==
    /\ USERS = ("root" :> User("root", "Admin", "Active", <<>>, NotificationSettings_default,
                                DeployTime))
    /\ SETTINGS = GlobalSettings_default
    /\ NOTIFICATIONS = EmptyMap
    /\ UUID_COUNTER = 0
    /\ SERIES = EmptyMap
    /\ OVERRIDES = EmptyMap
    /\ INSTANCES = EmptyMap
    /\ call = [op |-> "none"]
    /\ prev = [op |-> "none"]

\* authorize_user
AuthorizeUser(caller, principal, role) ==
    LET c == [op |-> "authorize_user", caller |-> caller, principal |-> principal,
              role |-> role, ret |-> Err("none")]
        user == User(principal, role, "Active", <<>>, NotificationSettings_default, Now)
    IN  IF ~require_admin(caller) THEN respond(c, Err("Unauthorized"))
        ELSE IF principal \in DOMAIN USERS THEN respond(c, Err("Conflict"))
        ELSE /\ USERS' = (principal :> user) @@ USERS
             /\ call' = [c EXCEPT !.ret = Ok(user)]
             /\ UNCHANGED <<SETTINGS, NOTIFICATIONS, UUID_COUNTER,
                            SERIES, OVERRIDES, INSTANCES, prev>>

\* update_global_settings
UpdateGlobalSettings(caller, settings) ==
    LET c == [op |-> "update_global_settings", caller |-> caller,
              settings |-> settings, ret |-> Err("none")]
    IN  IF ~require_admin(caller) THEN respond(c, Err("Unauthorized"))
        ELSE /\ SETTINGS' = settings
             /\ call' = [c EXCEPT !.ret = Ok("unit")]
             /\ UNCHANGED <<USERS, NOTIFICATIONS, UUID_COUNTER,
                            SERIES, OVERRIDES, INSTANCES, prev>>

\* CreateSeriesInput
CreateSeriesInput(frequency, weekday, weekday_ordinal, start_date, end_date, minutes) ==
    [frequency |-> frequency, weekday |-> weekday, weekday_ordinal |-> weekday_ordinal,
     start_date |-> start_date, end_date |-> end_date,
     default_duration_minutes |-> minutes, notes |-> "rule notes"]

\* a create_event_series without the ordinal test
series_input_invalid_never(input) == FALSE

\* create_event_series: "Monthly frequency requires weekday_ordinal"
series_input_invalid(input) ==
    input.frequency = "Monthly" /\ input.weekday_ordinal = None

\* create_event_series
CreateEventSeries(caller, input) ==
    LET c == [op |-> "create_event_series", caller |-> caller, input |-> input,
              ret |-> Err("none")]
        settings == get_settings
        id == UUID_COUNTER + 1
        series == EventSeries(id, input.frequency, input.weekday, input.weekday_ordinal,
                              input.start_date, input.end_date,
                              unwrap_or(input.default_duration_minutes,
                                        settings.default_event_duration_minutes),
                              input.notes)
    IN  /\ UUID_COUNTER < MaxUuid
        /\ IF ~require_admin(caller) THEN respond(c, Err("Unauthorized"))
           ELSE IF series_input_invalid(input) THEN respond(c, Err("InvalidInput"))
           ELSE /\ SERIES' = (id :> series) @@ SERIES
                /\ UUID_COUNTER' = UUID_COUNTER + 1
                /\ call' = [c EXCEPT !.ret = Ok(series)]
                /\ UNCHANGED <<USERS, SETTINGS, NOTIFICATIONS, OVERRIDES, INSTANCES, prev>>

\* UpdateSeriesInput: each field None to leave the rule's value, Some(v) to
\* set it (end_date: Some(None) clears the end)
UpdateSeriesInput(notes, end_date, minutes, paused) ==
    [notes |-> notes, end_date |-> end_date,
     default_duration_minutes |-> minutes, paused |-> paused]

\* the rule update_event_series stores
updated_series(series, input) ==
    [series EXCEPT
        !.notes = unwrap_or(input.notes, series.notes),
        !.end_date = unwrap_or(input.end_date, series.end_date),
        !.default_duration_minutes =
            unwrap_or(input.default_duration_minutes, series.default_duration_minutes),
        !.paused = unwrap_or(input.paused, series.paused)]

\* update_event_series
UpdateEventSeries(caller, series_id, input) ==
    LET c == [op |-> "update_event_series", caller |-> caller, series_id |-> series_id,
              input |-> input, ret |-> Err("none")]
    IN  IF ~require_admin(caller) THEN respond(c, Err("Unauthorized"))
        ELSE IF get_series(series_id) = None THEN respond(c, Err("NotFound"))
        ELSE LET series == updated_series(SERIES[series_id], input)
             IN  /\ SERIES' = [SERIES EXCEPT ![series_id] = series]
                 /\ call' = [c EXCEPT !.ret = Ok(series)]
                 /\ UNCHANGED <<USERS, SETTINGS, NOTIFICATIONS, UUID_COUNTER,
                                OVERRIDES, INSTANCES, prev>>

\* a delete_event_series that answers Ok and keeps the rule
delete_series_keeping(series_id) == SERIES

\* storage::delete_series, as the store after the removal
delete_series(series_id) == [id \in DOMAIN SERIES \ {series_id} |-> SERIES[id]]

\* delete_event_series: the overrides of the rule stay stored
DeleteEventSeries(caller, series_id) ==
    LET c == [op |-> "delete_event_series", caller |-> caller, series_id |-> series_id,
              ret |-> Err("none")]
    IN  IF ~require_admin(caller) THEN respond(c, Err("Unauthorized"))
        ELSE IF get_series(series_id) = None THEN respond(c, Err("NotFound"))
        ELSE /\ SERIES' = delete_series(series_id)
             /\ call' = [c EXCEPT !.ret = Ok("unit")]
             /\ UNCHANGED <<USERS, SETTINGS, NOTIFICATIONS, UUID_COUNTER,
                            OVERRIDES, INSTANCES, prev>>

\* toggle_series_pause
ToggleSeriesPause(caller, series_id) ==
    LET c == [op |-> "toggle_series_pause", caller |-> caller, series_id |-> series_id,
              ret |-> Err("none")]
    IN  IF ~require_admin(caller) THEN respond(c, Err("Unauthorized"))
        ELSE IF get_series(series_id) = None THEN respond(c, Err("NotFound"))
        ELSE LET series == [SERIES[series_id] EXCEPT !.paused = ~SERIES[series_id].paused]
             IN  /\ SERIES' = [SERIES EXCEPT ![series_id] = series]
                 /\ call' = [c EXCEPT !.ret = Ok(series)]
                 /\ UNCHANGED <<USERS, SETTINGS, NOTIFICATIONS, UUID_COUNTER,
                                OVERRIDES, INSTANCES, prev>>

\* create_one_off_event
CreateOneOffEvent(caller, start_utc, end_utc, host_principal) ==
    LET c == [op |-> "create_one_off_event", caller |-> caller, start_utc |-> start_utc,
              end_utc |-> end_utc, host_principal |-> host_principal, ret |-> Err("none")]
        instance == EventInstance(generate_uuid(UUID_COUNTER), None, start_utc, end_utc,
                                  "One-off", "one-off notes", host_principal, "Active")
    IN  /\ UUID_COUNTER < MaxUuid
        /\ IF ~require_authorized(caller) THEN respond(c, Err("Unauthorized"))
           ELSE IF start_utc >= end_utc THEN respond(c, Err("InvalidInput"))
           ELSE /\ INSTANCES' = insert_instance(instance)
                /\ UUID_COUNTER' = UUID_COUNTER + 1
                /\ call' = [c EXCEPT !.ret = Ok(instance)]
                /\ UNCHANGED <<USERS, SETTINGS, NOTIFICATIONS, SERIES, OVERRIDES, prev>>

\* the length of a rule or session identifier: [u8; 16]
IdLen == 16

\* a Vec<u8> argument, by its length and (for a full-length one) the
\* identifier its bytes are
Vec(len, content) == [len |-> len, content |-> content]

\* Vec<u8>::try_into::<[u8; 16]>, with the endpoints' map_err
try_into(v) == IF v.len = IdLen THEN Ok(v.content) ELSE Err("InvalidInput")

\* series_id.map(try_into).transpose(): ApiResult<Option<[u8; 16]>>
try_into_option(series_id) ==
    IF series_id = None THEN Ok(None)
    ELSE LET r == try_into(unwrap_or(series_id, 0))
         IN  IF r.ok THEN Ok(Some(r.val)) ELSE r

\* the assign_host endpoint: the caller is authorized and touched, the
\* identifiers are converted, and the request goes to coverage::assign_host
\* with admin_override = the caller has role Admin
AssignHost(caller, series_id, occurrence_start, instance_id, host_principal) ==
    LET c == [op |-> "assign_host", caller |-> caller, series_id |-> series_id,
              occurrence_start |-> occurrence_start, instance_id |-> instance_id,
              host_principal |-> host_principal, before |-> stores_before,
              ret |-> Err("none")]
        sid == try_into_option(series_id)
        iid == try_into(instance_id)
    IN  /\ UUID_COUNTER < MaxUuid
        /\ IF ~require_authorized(caller) THEN respond(c, Err("Unauthorized"))
           ELSE /\ USERS' = touch_last_active(caller)
                /\ IF ~sid.ok \/ ~iid.ok
                   THEN /\ call' = [c EXCEPT !.ret = IF ~sid.ok THEN sid ELSE iid]
                        /\ UNCHANGED <<SETTINGS, NOTIFICATIONS, UUID_COUNTER,
                                       SERIES, OVERRIDES, INSTANCES, prev>>
                   ELSE assign_host(sid.val, occurrence_start, iid.val, host_principal,
                                    caller, USERS[caller].role = "Admin")

\* the unassign_host endpoint
UnassignHost(caller, series_id, occurrence_start, instance_id) ==
    LET c == [op |-> "unassign_host", caller |-> caller, series_id |-> series_id,
              occurrence_start |-> occurrence_start, instance_id |-> instance_id,
              before |-> stores_before, ret |-> Err("none")]
        sid == try_into_option(series_id)
        iid == try_into(instance_id)
    IN  /\ UUID_COUNTER < MaxUuid
        /\ IF ~require_authorized(caller) THEN respond(c, Err("Unauthorized"))
           ELSE IF ~sid.ok THEN respond(c, sid)
           ELSE IF ~iid.ok THEN respond(c, iid)
           ELSE /\ UNCHANGED USERS
                /\ unassign_host(sid.val, occurrence_start, iid.val, caller)

\* list_events
ListEvents(caller, window_start, window_end) ==
    IF ~require_authorized(caller)
    THEN respond([op |-> "list_events", caller |-> caller, ret |-> Err("none")],
                 Err("Unauthorized"))
    ELSE MaterializeEvents(window_start, window_end)

\* the principals that call: the deployer and one more
Callers == {"root", "alice"}

\* the rules an administrator asks for: weekly and monthly on Thursday, and
\* a monthly one without ordinal
SeriesInputs ==
    { CreateSeriesInput("Weekly", 3, None, 0, None, Some(2 * MinutesPerTick)),
      CreateSeriesInput("Monthly", 3, Some(2), 0, None, None),
      CreateSeriesInput("Monthly", 3, None, 0, None, Some(2 * MinutesPerTick)) }

SeriesUpdates ==
    { UpdateSeriesInput(None, Some(Some(Days(7))), None, None),
      UpdateSeriesInput(Some("new notes"), Some(None), None, Some(TRUE)) }

\* the targets of assign and unassign requests: the occurrence at CovOcc of
\* each rule and each one-off, with identifiers of 16 bytes; and requests
\* whose series_id or instance_id has 15 or 17 bytes
EndpointTargets ==
    { <<Some(Vec(IdLen, id)), Some(CovOcc), Vec(IdLen, generate_instance_id(id, CovOcc))>> :
        id \in 1..MaxUuid }
    \cup { <<None, None, Vec(IdLen, Uuid(id))>> : id \in 1..MaxUuid }
    \cup { <<Some(Vec(IdLen - 1, "short")), Some(CovOcc), Vec(IdLen, generate_instance_id(1, CovOcc))>>,
           <<Some(Vec(IdLen, 1)), Some(CovOcc), Vec(IdLen + 1, "long")>>,
           <<None, None, Vec(IdLen - 1, "short")>> }

Next ==
    \/ \E caller \in Callers : AuthorizeUser(caller, "alice", "User")
    \/ \E caller \in Callers, paused \in BOOLEAN :
          UpdateGlobalSettings(caller, GlobalSettings(2, paused, 60))
    \/ \E caller \in Callers, input \in SeriesInputs : CreateEventSeries(caller, input)
    \/ \E caller \in Callers, id \in 1..MaxUuid, input \in SeriesUpdates :
          UpdateEventSeries(caller, id, input)
    \/ \E caller \in Callers, id \in 1..MaxUuid : DeleteEventSeries(caller, id)
    \/ \E caller \in Callers, id \in 1..MaxUuid : ToggleSeriesPause(caller, id)
    \/ \E caller \in Callers : CreateOneOffEvent(caller, CovOcc, CovOcc + 2, None)
    \/ \E caller \in Callers, t \in EndpointTargets, host \in Callers :
          AssignHost(caller, t[1], t[2], t[3], host)
    \/ \E caller \in Callers, t \in EndpointTargets :
          UnassignHost(caller, t[1], t[2], t[3])
    \/ \E caller \in Callers : ListEvents(caller, 0, Days(14))

Spec == Init /\ [][Next]_vars

\* --------------------------------- claims on the resolver and materializer

IsMat(c) == c.op = "materialize_events"

IsGet(c) == c.op = "get_event_instance"

\* the sessions an application returned
Resolved(c) ==
    IF IsMat(c) THEN Range(c.ret)
    ELSE IF IsGet(c) /\ c.ret.ok THEN {c.ret.val}
    ELSE {}

\* the recurring sessions among them
Recurring(c) == {e \in Resolved(c) : e.series_id # None}

\* the occurrence key of a recurring session: its rule and base instant
RuleOf(e) == e.instance_id[2]

BaseOf(e) == e.instance_id[3]

HasException(e) == <<RuleOf(e), BaseOf(e)>> \in DOMAIN OVERRIDES

ExceptionOf(e) == OVERRIDES[<<RuleOf(e), BaseOf(e)>>]

\* the rule's default duration D, as a span of instants
DefaultDuration(e) == SERIES[RuleOf(e)].default_duration_minutes \div MinutesPerTick

\* C6: effective start = the exception's start override if present, else the
\* base instant b; effective end = the exception's end override if present,
\* else b + D (so overriding only the start leaves the end at b + D).
C6_EffectiveTiming ==
    \A e \in Recurring(call) :
       /\ e.start_utc = IF HasException(e) /\ ExceptionOf(e).start_utc # None
                        THEN unwrap_or(ExceptionOf(e).start_utc, 0)
                        ELSE BaseOf(e)
       /\ e.end_utc = IF HasException(e) /\ ExceptionOf(e).end_utc # None
                      THEN unwrap_or(ExceptionOf(e).end_utc, 0)
                      ELSE BaseOf(e) + DefaultDuration(e)

\* C6 witness: materialize returned an occurrence whose exception overrides
\* only the start; its end is b + D, which differs from new start + D.
C6_Witness ==
    /\ IsMat(call)
    /\ \E e \in Recurring(call) :
          /\ HasException(e)
          /\ ExceptionOf(e).start_utc # None
          /\ ExceptionOf(e).end_utc = None
          /\ e.start_utc # BaseOf(e)
          /\ e.end_utc = BaseOf(e) + DefaultDuration(e)
          /\ e.end_utc # e.start_utc + DefaultDuration(e)

\* C7: the effective host is none without an exception, none when the
\* exception's explicitly-cleared flag is set (whatever its assigned host),
\* and the exception's assigned host (or none) otherwise.
C7_TriStateHost ==
    \A e \in Recurring(call) :
       e.host_principal = IF ~HasException(e) THEN None
                          ELSE IF ExceptionOf(e).host_cleared THEN None
                          ELSE ExceptionOf(e).host_principal

\* C7 witness: materialize returned an occurrence whose exception holds an
\* assigned host and the cleared flag; the session has no host.
C7_Witness ==
    /\ IsMat(call)
    /\ \E e \in Recurring(call) :
          /\ HasException(e)
          /\ ExceptionOf(e).host_cleared
          /\ ExceptionOf(e).host_principal = Some("alice")
          /\ e.host_principal = None

\* how many sessions of a list carry an identifier
CountId(seq, id) == Cardinality({i \in DOMAIN seq : seq[i].instance_id = id})

IsCancelledKey(sid, occ) ==
    <<sid, occ>> \in DOMAIN OVERRIDES /\ OVERRIDES[<<sid, occ>>].cancelled

\* C8: materialize returns no session for a generated occurrence whose
\* exception is marked cancelled, and exactly one session for every generated
\* occurrence whose exception is absent or not cancelled.
C8_CancelledDropped ==
    IsMat(call)
    => \A sid \in DOMAIN SERIES :
          \A occ \in Range(generate_occurrences(SERIES[sid], call.window_start,
                                                call.window_end)) :
             CountId(call.ret, <<"sha256", sid, occ>>)
                = IF IsCancelledKey(sid, occ) THEN 0 ELSE 1

\* C8 witness: a window in which a rule generates a cancelled occurrence and
\* another that is not cancelled, the second returned and the first not.
C8_Witness ==
    /\ IsMat(call)
    /\ \E sid \in DOMAIN SERIES :
          LET occs == Range(generate_occurrences(SERIES[sid], call.window_start,
                                                 call.window_end))
          IN  /\ \E occ \in occs : IsCancelledKey(sid, occ)
                                   /\ CountId(call.ret, <<"sha256", sid, occ>>) = 0
              /\ \E occ \in occs : ~IsCancelledKey(sid, occ)
                                   /\ CountId(call.ret, <<"sha256", sid, occ>>) = 1

\* C9: materialize includes a stored one-off session if and only if
\* window_start <= its start < window_end and its status is Active, once,
\* and returns it as stored.
C9_OneOffsMerged ==
    IsMat(call)
    => /\ \A id \in DOMAIN INSTANCES :
             CountId(call.ret, id)
                = IF /\ call.window_start <= INSTANCES[id].start_utc
                     /\ INSTANCES[id].start_utc < call.window_end
                     /\ INSTANCES[id].status = "Active"
                  THEN 1 ELSE 0
       /\ \A e \in Range(call.ret) :
             e.series_id = None
             => e.instance_id \in DOMAIN INSTANCES /\ e = INSTANCES[e.instance_id]

\* C9 witness: a one-off with a host was returned beside a recurring
\* occurrence that carries an exception.
C9_Witness ==
    /\ IsMat(call)
    /\ \E id \in DOMAIN INSTANCES :
          /\ INSTANCES[id].host_principal # None
          /\ CountId(call.ret, id) = 1
    /\ \E e \in Recurring(call) : HasException(e)

\* C10: the list materialize returns is ordered by effective start,
\* ascending.
C10_SortedByStart ==
    IsMat(call)
    => \A i \in 1..(Len(call.ret) - 1) : call.ret[i].start_utc <= call.ret[i + 1].start_utc

\* C10 witness: a returned list holding a one-off and an occurrence whose
\* overridden start moved it behind a later occurrence of its rule.
C10_Witness ==
    /\ IsMat(call)
    /\ \E i, j \in DOMAIN call.ret :
          /\ i < j
          /\ call.ret[i].series_id # None /\ call.ret[j].series_id # None
          /\ RuleOf(call.ret[i]) = RuleOf(call.ret[j])
          /\ BaseOf(call.ret[i]) > BaseOf(call.ret[j])
    /\ \E i \in DOMAIN call.ret : call.ret[i].series_id = None

\* ------------------------------------------- claims on assign and unassign

\* everything a request can store
Stored == <<USERS, SETTINGS, NOTIFICATIONS, SERIES, OVERRIDES, INSTANCES>>

IsAssign(c) == c.op = "assign_host"

IsUnassign(c) == c.op = "unassign_host"

IsUnclaimed(c) == c.op = "list_unclaimed_events"

\* C11: materialize and unclaimed are pure reads.  A step that is one of
\* them leaves every stored rule, exception, one-off session, setting,
\* user and notification as it was, and asking materialize again for the
\* same window right after it (no write in between) returns the same list.
C11_PureReads ==
    /\ [][ (IsMat(call') \/ IsUnclaimed(call')) => Stored' = Stored ]_vars
    /\ [](IsMat(call) =>
             materialize_events(call.window_start, call.window_end) = call.ret)

\* C11 witness: materialize has returned sessions after an assignment was
\* written, and the list is what it returns again.
C11_Witness ==
    /\ IsMat(call)
    /\ Len(call.ret) > 1
    /\ NOTIFICATIONS # EmptyMap
    /\ \E i \in DOMAIN call.ret : call.ret[i].host_principal = Some("alice")
    /\ materialize_events(call.window_start, call.window_end) = call.ret

\* the acting user of a request is an administrator
CallerIsAdministrator(c) == USERS[c.caller].role = "Admin"

\* the interval of the occurrence or one-off a request names, as
\* get_event_timing resolves it
TimingOf(c) == get_event_timing(c.series_id, c.occurrence_start, c.instance_id)

\* the host of an assign request is a stored user who is disabled or out
\* of office during the session
HostIneligible(c) ==
    /\ c.host_principal \in DOMAIN USERS
    /\ TimingOf(c).ok
    /\ ~can_be_assigned_host(USERS[c.host_principal], TimingOf(c).val[1], TimingOf(c).val[2])

\* C12: while claims are paused, an assign or unassign by a user who is not
\* an administrator fails with Conflict whatever else is wrong with the
\* request and whatever admin_override says; an administrator is never
\* turned away by the pause: a Conflict an administrator gets is the
\* eligibility Conflict of an assign without admin_override.
\* (assign and unassign leave USERS and SETTINGS as they were, so both are
\* read in the state after the request.)
C12_PauseGate ==
    (IsAssign(call) \/ IsUnassign(call)) /\ SETTINGS.claims_paused =>
        /\ ~CallerIsAdministrator(call) => call.ret = Err("Conflict")
        /\ CallerIsAdministrator(call) /\ call.ret = Err("Conflict") =>
              IsAssign(call) /\ ~call.admin_override /\ HostIneligible(call)

\* C12 witness: claims are paused and a member's assign with admin_override
\* set, naming an eligible host and an existing occurrence, got Conflict.
C12_Witness ==
    /\ IsAssign(call) /\ SETTINGS.claims_paused
    /\ ~CallerIsAdministrator(call) /\ call.admin_override
    /\ call.host_principal \in DOMAIN USERS /\ TimingOf(call).ok /\ ~HostIneligible(call)
    /\ call.ret = Err("Conflict")

\* the request passed the pause gate
PassedPauseGate(c) == ~SETTINGS.claims_paused \/ CallerIsAdministrator(c)

\* the target of a request exists: a stored rule with an occurrence_start,
\* or a stored one-off
TargetStored(c) ==
    IF c.series_id # None
    THEN c.occurrence_start # None /\ unwrap_or(c.series_id, 0) \in DOMAIN SERIES
    ELSE c.instance_id \in DOMAIN INSTANCES

\* the effective <<start, end>> of the target of a request, by the overlay
\* rules: the exception's start else the base instant, the exception's end
\* else the base instant plus the rule's default duration; for a one-off
\* its stored start and end.  (assign and unassign write neither field.)
SessionOf(c) ==
    IF c.series_id # None
    THEN LET sid == unwrap_or(c.series_id, 0)
             b == unwrap_or(c.occurrence_start, 0)
             k == OverrideKey(sid, b)
             D == SERIES[sid].default_duration_minutes \div MinutesPerTick
             st == IF k \in DOMAIN OVERRIDES /\ OVERRIDES[k].start_utc # None
                   THEN unwrap_or(OVERRIDES[k].start_utc, 0) ELSE b
             en == IF k \in DOMAIN OVERRIDES /\ OVERRIDES[k].end_utc # None
                   THEN unwrap_or(OVERRIDES[k].end_utc, 0) ELSE b + D
         IN  <<st, en>>
    ELSE <<INSTANCES[c.instance_id].start_utc, INSTANCES[c.instance_id].end_utc>>

\* the host is disabled, or one of the host's out-of-office blocks overlaps
\* the half-open interval [s[1], s[2])
Ineligible(host, s) ==
    \/ host.status = "Disabled"
    \/ \E i \in DOMAIN host.out_of_office :
          host.out_of_office[i].start_utc < s[2] /\ host.out_of_office[i].end_utc > s[1]

\* C13: an assign that passed the pause gate, names a stored host and an
\* existing target, and does not set admin_override, fails with Conflict
\* when the host is disabled or out of office during the session; it is not
\* rejected with Conflict when the host is eligible (a block that ends where
\* the session starts or starts where it ends does not count) or when
\* admin_override is set.
C13_Eligibility ==
    /\ IsAssign(call) /\ PassedPauseGate(call)
    /\ call.host_principal \in DOMAIN USERS /\ TargetStored(call)
    => LET inel == Ineligible(USERS[call.host_principal], SessionOf(call))
       IN  /\ ~call.admin_override /\ inel => call.ret = Err("Conflict")
           /\ call.admin_override \/ ~inel => call.ret # Err("Conflict")

\* the request names a recurring occurrence / a one-off session
OnRecurring(c) == c.series_id # None

\* the occurrence key <<r, t>> a request on a recurring occurrence names
KeyOf(c) == OverrideKey(unwrap_or(c.series_id, 0), unwrap_or(c.occurrence_start, 0))

\* the request succeeded
Succeeded(c) == c.ret.ok

\* C14: after a successful assign of host h to the recurring occurrence
\* (r, t) the exception at (r, t) is stored with assigned host h and the
\* explicitly-cleared flag false, whether or not an exception was stored
\* and whether or not it was explicitly cleared before, and the session
\* returned has host h; after a successful assign to a one-off the stored
\* one-off's host is h.
C14_AssignWrites ==
    IsAssign(call) /\ Succeeded(call) =>
        /\ call.ret.val.host_principal = Some(call.host_principal)
        /\ IF OnRecurring(call)
           THEN /\ KeyOf(call) \in DOMAIN OVERRIDES
                /\ OVERRIDES[KeyOf(call)].host_principal = Some(call.host_principal)
                /\ ~OVERRIDES[KeyOf(call)].host_cleared
           ELSE /\ call.instance_id \in DOMAIN INSTANCES
                /\ INSTANCES[call.instance_id].host_principal = Some(call.host_principal)

\* C14 witness: an assign succeeded on an occurrence whose exception was
\* explicitly cleared when the request started, and the exception now
\* holds the host with the flag false.
C14_Witness ==
    /\ IsAssign(call) /\ Succeeded(call) /\ OnRecurring(call)
    /\ KeyOf(call) \in DOMAIN call.before.OVERRIDES
    /\ call.before.OVERRIDES[KeyOf(call)].host_cleared
    /\ OVERRIDES[KeyOf(call)].host_principal = Some(call.host_principal)
    /\ ~OVERRIDES[KeyOf(call)].host_cleared

\* the sessions materialize returns, over the window [0, 14 days), for the
\* occurrence key a request names
MaterializedFor(c) ==
    LET all == materialize_events(0, Days(14))
    IN  { all[i] : i \in { j \in DOMAIN all :
                             all[j].instance_id =
                                generate_instance_id(KeyOf(c)[1], KeyOf(c)[2]) } }

\* C15: after a successful unassign on the recurring occurrence (r, t) the
\* exception at (r, t) is stored with no host and the explicitly-cleared
\* flag true, and the session returned, like the session materialize then
\* returns for the key, has no host; after a successful unassign on a
\* one-off its stored host is none.  unassign has no eligibility check: a
\* request that passed the pause gate never fails with Conflict.
C15_UnassignWrites ==
    IsUnassign(call) =>
        /\ PassedPauseGate(call) => call.ret # Err("Conflict")
        /\ Succeeded(call) =>
              /\ call.ret.val.host_principal = None
              /\ IF OnRecurring(call)
                 THEN /\ KeyOf(call) \in DOMAIN OVERRIDES
                      /\ OVERRIDES[KeyOf(call)].host_principal = None
                      /\ OVERRIDES[KeyOf(call)].host_cleared
                      /\ \A e \in MaterializedFor(call) : e.host_principal = None
                 ELSE /\ call.instance_id \in DOMAIN INSTANCES
                      /\ INSTANCES[call.instance_id].host_principal = None

\* C15 witness: an unassign succeeded on an occurrence whose assigned host
\* is a disabled user; the exception is now explicitly cleared and
\* materialize returns the occurrence without a host.
C15_Witness ==
    /\ IsUnassign(call) /\ Succeeded(call) /\ OnRecurring(call)
    /\ KeyOf(call) \in DOMAIN call.before.OVERRIDES
    /\ call.before.OVERRIDES[KeyOf(call)].host_principal = Some("alice")
    /\ USERS["alice"].status = "Disabled"
    /\ OVERRIDES[KeyOf(call)].host_cleared
    /\ MaterializedFor(call) # {}
    /\ \A e \in MaterializedFor(call) : e.host_principal = None

\* the exception under the key of a request was marked cancelled when the
\* request started
TargetWasCancelled(c) ==
    /\ OnRecurring(c) /\ c.occurrence_start # None
    /\ KeyOf(c) \in DOMAIN c.before.OVERRIDES
    /\ c.before.OVERRIDES[KeyOf(c)].cancelled

\* the request was turned away by the pause gate or by the eligibility gate
RejectedByGate(c) ==
    \/ ~PassedPauseGate(c)
    \/ IsAssign(c) /\ ~c.admin_override /\ HostIneligible(c)

\* C16: an assign or unassign on a recurring occurrence whose exception is
\* marked cancelled fails, and fails with NotFound: the only other answer
\* is the Conflict of the pause gate or of the eligibility gate, which are
\* tested first.
C16_CancelledOccurrence ==
    (IsAssign(call) \/ IsUnassign(call)) /\ TargetWasCancelled(call) =>
        /\ ~Succeeded(call)
        /\ \/ call.ret = Err("NotFound")
           \/ call.ret = Err("Conflict") /\ RejectedByGate(call)

\* C16 witness: an assign of a stored, eligible host to a cancelled
\* occurrence, past the pause gate, got NotFound.
C16_Witness ==
    /\ IsAssign(call) /\ TargetWasCancelled(call)
    /\ call.host_principal \in DOMAIN USERS /\ ~RejectedByGate(call)
    /\ call.ret = Err("NotFound")

\* the one-off a request names was stored with status Cancelled when the
\* request started
OneOffWasCancelled(c) ==
    /\ ~OnRecurring(c)
    /\ c.instance_id \in DOMAIN c.before.INSTANCES
    /\ c.before.INSTANCES[c.instance_id].status = "Cancelled"

\* C17: an assign or unassign on a one-off session whose status is
\* Cancelled fails with NotFound (or with the Conflict of a gate tested
\* before the target is resolved) and the stored one-off keeps the host it
\* had.
C17_CancelledOneOff ==
    (IsAssign(call) \/ IsUnassign(call)) /\ OneOffWasCancelled(call) =>
        /\ ~Succeeded(call)
        /\ \/ call.ret = Err("NotFound")
           \/ call.ret = Err("Conflict") /\ RejectedByGate(call)
        /\ INSTANCES[call.instance_id].host_principal =
              call.before.INSTANCES[call.instance_id].host_principal

\* rule `series` generates an occurrence with base instant t: t is midnight
\* of a day on the rule's weekday within [start_date, end_date), a whole
\* number of fortnights after the first occurrence for Biweekly, and the
\* Nth (or last) such weekday of its month for Monthly
Generates(series, t) ==
    /\ t >= series.start_date
    /\ series.end_date # None => t < unwrap_or(series.end_date, 0)
    /\ t % TicksPerDay = 0
    /\ WeekdayOf(t) = series.weekday
    /\ series.frequency = "Biweekly" => (DayOf(t) - FirstOccurrenceDay(series)) % 14 = 0
    /\ series.frequency = "Monthly" =>
          /\ series.weekday_ordinal # None
          /\ \E m \in MonthsOfModel :
                /\ Days(m[1]) <= t /\ t < Days(m[2])
                /\ IsNthWeekday(t, m, series.weekday, unwrap_or(series.weekday_ordinal, 0))

\* the request names a stored rule and an occurrence_start that the rule
\* does not generate
NotAnOccurrence(c) ==
    /\ OnRecurring(c) /\ c.occurrence_start # None
    /\ KeyOf(c)[1] \in DOMAIN SERIES
    /\ ~Generates(SERIES[KeyOf(c)[1]], KeyOf(c)[2])

\* C18: an assign or unassign that names a stored rule and an
\* occurrence_start the rule does not generate fails with NotFound (or with
\* the Conflict of a gate tested before the target is resolved), and no
\* exception is stored under that key that was not stored before.
C18_NotAnOccurrence ==
    (IsAssign(call) \/ IsUnassign(call)) /\ NotAnOccurrence(call) =>
        /\ ~Succeeded(call)
        /\ \/ call.ret = Err("NotFound")
           \/ call.ret = Err("Conflict") /\ RejectedByGate(call)
        /\ KeyOf(call) \in DOMAIN OVERRIDES => KeyOf(call) \in DOMAIN call.before.OVERRIDES

\* ----------------------------------------------- claims on the rule store

\* the stored exceptions whose rule is not stored (any more)
Orphans == {k \in DOMAIN OVERRIDES : k[1] \notin DOMAIN SERIES}

\* the windows materialize is asked for: two weeks, the one day of the
\* occurrence the requests name, and two months
RuleWindows == { <<0, Days(14)>>, <<CovOcc, CovOcc + 1>>, <<1, Days(60)>> }

\* the recurring sessions materialize returns for window w in this state
RecurringIn(w) == {e \in Range(materialize_events(w[1], w[2])) : e.series_id # None}

\* C19: once delete_event_series(r) has succeeded r is not stored, and
\* materialize over every window returns no session of a rule that is not
\* stored, whatever exceptions keyed by it remain; every session it returns
\* takes its host from the exception under its own key only (none when
\* there is none or it is cleared), so orphaned exceptions change no other
\* rule's sessions.
C19_DeletedRuleGone ==
    /\ call.op = "delete_event_series" /\ Succeeded(call) =>
          call.series_id \notin DOMAIN SERIES
    /\ \A w \in RuleWindows : \A e \in RecurringIn(w) :
          /\ RuleOf(e) \in DOMAIN SERIES
          /\ e.series_id = Some(RuleOf(e))
          /\ e.host_principal =
                IF HasException(e) /\ ~ExceptionOf(e).host_cleared
                THEN ExceptionOf(e).host_principal ELSE None

\* C19 witness: a rule was deleted with an exception stored under it, the
\* exception is still stored, and materialize returns the sessions of
\* another rule, among them the occurrence at the orphan's base instant.
C19_Witness ==
    /\ Orphans # {}
    /\ IsMat(call)
    /\ \E e \in Recurring(call), k \in Orphans :
          BaseOf(e) = k[2] /\ RuleOf(e) # k[1] /\ e.host_principal = None

\* a create_event_series request for a Monthly rule without an ordinal
MonthlyWithoutOrdinal(c) ==
    /\ c.op = "create_event_series"
    /\ c.input.frequency = "Monthly"
    /\ c.input.weekday_ordinal = None

\* C20: in every reachable state every stored Monthly rule has an ordinal;
\* a create_event_series for a Monthly rule without ordinal stores nothing
\* and answers an administrator InvalidInput; and no step changes the
\* frequency or the ordinal of a rule that stays stored (update_event_series
\* and toggle_series_pause among them).
C20_MonthlyHasOrdinal ==
    /\ [](\A id \in DOMAIN SERIES :
             SERIES[id].frequency = "Monthly" => SERIES[id].weekday_ordinal # None)
    /\ [][ MonthlyWithoutOrdinal(call') =>
              /\ SERIES' = SERIES
              /\ require_admin(call'.caller) => call'.ret = Err("InvalidInput") ]_vars
    /\ [][ \A id \in DOMAIN SERIES \cap DOMAIN SERIES' :
              /\ SERIES'[id].frequency = SERIES[id].frequency
              /\ SERIES'[id].weekday_ordinal = SERIES[id].weekday_ordinal ]_vars

\* C20 witness: an administrator's Monthly rule without ordinal was just
\* rejected, while a Monthly rule stored earlier has been updated and paused.
C20_Witness ==
    /\ MonthlyWithoutOrdinal(call)
    /\ call.ret = Err("InvalidInput")
    /\ \E id \in DOMAIN SERIES :
          /\ SERIES[id].frequency = "Monthly"
          /\ SERIES[id].weekday_ordinal = Some(2)
          /\ SERIES[id].notes = "new notes"
          /\ SERIES[id].paused

\* ------------------------------- claims on notifications, errors, frames

\* the effective host of the target of request c as the stores held it
\* before the request: for an occurrence the host of its exception unless
\* that is cleared (none without an exception), for a one-off its host
HostBefore(c) ==
    IF c.series_id # None
    THEN LET k == OverrideKey(unwrap_or(c.series_id, 0), unwrap_or(c.occurrence_start, 0))
         IN  IF k \in DOMAIN c.before.OVERRIDES /\ ~c.before.OVERRIDES[k].host_cleared
             THEN c.before.OVERRIDES[k].host_principal
             ELSE None
    ELSE IF c.instance_id \in DOMAIN c.before.INSTANCES
         THEN c.before.INSTANCES[c.instance_id].host_principal
         ELSE None

\* the jobs request c added to the outbox
NewJobs(c) ==
    {NOTIFICATIONS[j] : j \in DOMAIN NOTIFICATIONS \ DOMAIN c.before.NOTIFICATIONS}

\* request c left every job that was in the outbox as it was
KeepsOldJobs(c) ==
    \A j \in DOMAIN c.before.NOTIFICATIONS :
        j \in DOMAIN NOTIFICATIONS /\ NOTIFICATIONS[j] = c.before.NOTIFICATIONS[j]

\* the previous host of request c is a stored user who wants removal notices
PreviousHostNotified(c) ==
    /\ HostBefore(c) # None
    /\ \E h \in HostBefore(c) :
          h \in DOMAIN USERS /\ USERS[h].notification_settings.email_on_removed

\* C21: unassign adds exactly one job, a HostRemoved job addressed to the
\* effective host the target had before the call, when the call succeeds and
\* that host existed, is a stored user and has removal notices enabled; in
\* every other case (no previous host, host not stored, notices off, failed
\* call) it adds none.  Jobs already in the outbox stay as they were.
C21_RemovedNotice ==
    IsUnassign(call) =>
        /\ KeepsOldJobs(call)
        /\ IF Succeeded(call) /\ PreviousHostNotified(call)
           THEN /\ Cardinality(NewJobs(call)) = 1
                /\ \A n \in NewJobs(call) :
                      /\ n.notification_type = "HostRemoved"
                      /\ Some(n.recipient_principal) = HostBefore(call)
                      /\ n.instance_id = call.instance_id
           ELSE NewJobs(call) = {}

\* C21 witness: an unassign took "bob" off the occurrence and queued bob's
\* removal notice.
C21_Witness ==
    /\ IsUnassign(call)
    /\ Succeeded(call)
    /\ OnRecurring(call)
    /\ HostBefore(call) = Some("bob")
    /\ \E n \in NewJobs(call) : n.recipient_principal = "bob"

\* the requests whose series_id or instance_id is not exactly 16 bytes
MalformedTargets ==
    { t \in EndpointTargets :
        \/ t[1] # None /\ \E v \in t[1] : v.len # IdLen
        \/ t[3].len # IdLen }

\* the step left every user, exception, one-off session and notification
\* as it was
NothingWritten ==
    /\ USERS' = USERS
    /\ OVERRIDES' = OVERRIDES
    /\ INSTANCES' = INSTANCES
    /\ NOTIFICATIONS' = NOTIFICATIONS

\* C22: a step that is an assign or unassign request of an authorized
\* caller with a series_id or instance_id that is not exactly 16 bytes
\* answers InvalidInput and writes nothing: no user record, exception,
\* one-off session or notification differs from before the request.
C22_MalformedRejected ==
    [][ \A caller \in Callers, t \in MalformedTargets :
           require_authorized(caller) =>
              /\ \A host \in Callers :
                    AssignHost(caller, t[1], t[2], t[3], host) =>
                        call'.ret = Err("InvalidInput") /\ NothingWritten
              /\ UnassignHost(caller, t[1], t[2], t[3]) =>
                    call'.ret = Err("InvalidInput") /\ NothingWritten ]_vars

\* ------------------------------------------ SpecDate: the date conversions
\* nanos_to_ymd, ymd_to_nanos and weekday_from_nanos are pure functions of
\* an instant.  SpecDate applies them to the instants of DateInstants.

\* days since the epoch: the first 60 days, the ends of February and of the
\* year in 1972, 2000, 2100 and 2400, and the last day a u64 instant reaches
\* (2554-07-21)
DateDays ==
    (0..60)
    \cup {788, 789, 790, 1095, 1096}
    \cup {10956, 10957, 11015, 11016, 11017, 11322, 11323}
    \cup {47540, 47541, 47846, 47847}
    \cup {157113, 157114, 157419, 157420}
    \cup {213502, 213503}

\* every tick of those days that is a u64 instant
DateInstants ==
    {n \in {Days(d) + k : d \in DateDays, k \in 0..(TicksPerDay - 1)} : n <= U64_MAX}

InitDate ==
    /\ USERS = EmptyMap
    /\ SETTINGS = GlobalSettings_default
    /\ NOTIFICATIONS = EmptyMap
    /\ UUID_COUNTER = 0
    /\ SERIES = EmptyMap
    /\ OVERRIDES = EmptyMap
    /\ INSTANCES = EmptyMap
    /\ call = [op |-> "none"]
    /\ prev = [op |-> "none"]

\* no conversion is in progress
DateIdle == call.op = "nanos_to_ymd" => call.pc = "done"

DateFrame ==
    UNCHANGED <<USERS, SETTINGS, NOTIFICATIONS, UUID_COUNTER,
                SERIES, OVERRIDES, INSTANCES, prev>>

\* nanos_to_ymd(nanos) begins: y = 1970, remaining = days, m = 1.  The
\* record also holds the locals of the ymd_to_nanos that follows (year_iter
\* and month_iter are its two loop variables, days its sum).
NanosToYmd(nanos) ==
    /\ DateIdle
    /\ call' = [op |-> "nanos_to_ymd", pc |-> "year_loop", nanos |-> nanos,
                y |-> 1970, remaining |-> nanos_to_days(nanos), m |-> 1,
                ret |-> <<>>, year_iter |-> 1970, month_iter |-> 1, days |-> 0,
                back |-> 0]
    /\ DateFrame

\* one pass of the first loop of nanos_to_ymd
YearLoopStep ==
    /\ call.op = "nanos_to_ymd" /\ call.pc = "year_loop"
    /\ call' = IF call.remaining < days_in_year(call.y)
               THEN [call EXCEPT !.pc = "month_loop"]
               ELSE [call EXCEPT !.remaining = @ - days_in_year(call.y), !.y = @ + 1]
    /\ DateFrame

\* one pass of the second loop of nanos_to_ymd; when it breaks the result
\* is (y, m, remaining + 1) and ymd_to_nanos is called with it
MonthLoopStep ==
    /\ call.op = "nanos_to_ymd" /\ call.pc = "month_loop"
    /\ call' = IF call.remaining < days_in_month(call.y, call.m)
               THEN [call EXCEPT !.pc = "for_years",
                                 !.ret = <<call.y, call.m, call.remaining + 1>>]
               ELSE [call EXCEPT !.remaining = @ - days_in_month(call.y, call.m),
                                 !.m = @ + 1]
    /\ DateFrame

\* one pass of `for y in 1970..year` of ymd_to_nanos
ForYearsStep ==
    /\ call.op = "nanos_to_ymd" /\ call.pc = "for_years"
    /\ call' = IF call.year_iter < call.ret[1]
               THEN [call EXCEPT !.days = @ + days_in_year(call.year_iter),
                                 !.year_iter = @ + 1]
               ELSE [call EXCEPT !.pc = "for_months"]
    /\ DateFrame

\* one pass of `for m in 1..month` of ymd_to_nanos; after the last one the
\* day of the month is added and the day count converted
ForMonthsStep ==
    /\ call.op = "nanos_to_ymd" /\ call.pc = "for_months"
    /\ call' = IF call.month_iter < call.ret[2]
               THEN [call EXCEPT !.days = @ + days_in_month(call.ret[1], call.month_iter),
                                 !.month_iter = @ + 1]
               ELSE [call EXCEPT !.pc = "done",
                                 !.back = days_to_nanos(call.days + (call.ret[3] - 1))]
    /\ DateFrame

\* weekday_from_nanos(nanos)
WeekdayFromNanos(nanos) ==
    /\ DateIdle
    /\ call' = [op |-> "weekday_from_nanos", nanos |-> nanos,
                ret |-> weekday_from_nanos(nanos)]
    /\ DateFrame

NextDate ==
    \/ \E n \in DateInstants : NanosToYmd(n)
    \/ YearLoopStep
    \/ MonthLoopStep
    \/ ForYearsStep
    \/ ForMonthsStep
    \/ \E n \in DateInstants : WeekdayFromNanos(n)

SpecDate == InitDate /\ [][NextDate]_vars

\* the loops of SpecDate compute what the operators nanos_to_ymd and
\* ymd_to_nanos compute
DateOperatorsAgree ==
    call.op = "nanos_to_ymd" /\ call.pc = "done" =>
        /\ nanos_to_ymd(call.nanos) = call.ret
        /\ ymd_to_nanos(call.ret[1], call.ret[2], call.ret[3]) = call.back

\* ------------------------------------------ claims on the date conversions

\* the leap-year rule: divisible by 4, not by 100, unless by 400
LeapYear(y) == y % 4 = 0 /\ (y % 100 # 0 \/ y % 400 = 0)

\* the leap years before year y, counted from year 1
LeapYearsBefore(y) == ((y - 1) \div 4) - ((y - 1) \div 100) + ((y - 1) \div 400)

\* the days from the epoch to January 1st of year y under the leap-year rule
DaysToYear(y) == 365 * (y - 1970) + LeapYearsBefore(y) - LeapYearsBefore(1970)

\* the days of month m of year y under the leap-year rule
MonthLength(y, m) ==
    IF m = 2 THEN (IF LeapYear(y) THEN 29 ELSE 28)
    ELSE IF m \in {4, 6, 9, 11} THEN 30 ELSE 31

\* the start of the UTC day of instant n
StartOfDay(n) == n - (n % TicksPerDay)

\* C23: converting an instant n to (year, month, day) and back yields the
\* start of n's UTC day, the year is the one whose days contain n's day
\* under the leap-year rule, 1 <= month <= 12 and 1 <= day <= the length of
\* the month under that rule; the weekday index is 3 (Thursday) on the epoch
\* day and advances by 1 mod 7 per day.
C23_DateRoundTrip ==
    /\ call.op = "nanos_to_ymd" /\ call.pc = "done" =>
          LET y == call.ret[1]
              m == call.ret[2]
              d == call.ret[3]
              day == StartOfDay(call.nanos) \div TicksPerDay
          IN  /\ call.back = StartOfDay(call.nanos)
              /\ DaysToYear(y) <= day /\ day < DaysToYear(y + 1)
              /\ 1 <= m /\ m <= 12
              /\ 1 <= d /\ d <= MonthLength(y, m)
              /\ d <= days_in_month(y, m)
    /\ call.op = "weekday_from_nanos" =>
          /\ call.nanos < TicksPerDay => call.ret = 3
          /\ call.ret \in 0..6
          /\ call.nanos + TicksPerDay <= U64_MAX =>
                weekday_from_nanos(call.nanos + TicksPerDay) = (call.ret + 1) % 7
          /\ call.ret = (3 + (call.nanos \div TicksPerDay)) % 7

\* C23 witness: an instant inside 2100-03-01, the day after February 28th
\* of a year divisible by 100 and not by 400, converted and back to the
\* start of its day.
C23_Witness ==
    /\ call.op = "nanos_to_ymd"
    /\ call.pc = "done"
    /\ call.ret = <<2100, 3, 1>>
    /\ call.nanos # StartOfDay(call.nanos)
    /\ call.back = StartOfDay(call.nanos)

\* C24: the interval an assign tests against the host's out-of-office
\* blocks (get_event_timing; assign writes none of the fields it reads, so
\* it is the same after the request) is the effective <<start, end>> of the
\* target as the overlay rules resolve it, also when the exception
\* overrides only the start; and it is the start and end of the session a
\* successful assign returns.
C24_TestedInterval ==
    IsAssign(call) /\ TargetStored(call) /\ TimingOf(call).ok =>
        /\ TimingOf(call).val = SessionOf(call)
        /\ Succeeded(call) =>
              TimingOf(call).val = <<call.ret.val.start_utc, call.ret.val.end_utc>>

\* the exceptions, one-off sessions and notification outbox are as request
\* c found them
StoresAsBefore(c) ==
    /\ OVERRIDES = c.before.OVERRIDES
    /\ INSTANCES = c.before.INSTANCES
    /\ NOTIFICATIONS = c.before.NOTIFICATIONS

\* C25: whenever assign returns an error (Conflict, NotFound or
\* InvalidInput), the exception store, the one-off sessions and the
\* notification outbox are exactly as they were before the call.
C25_FailedAssignWritesNothing ==
    IsAssign(call) /\ ~Succeeded(call) => StoresAsBefore(call)

\* the windows materialize is asked for after a request on the occurrence
\* at CovOcc: two weeks around it, and the one day it starts
WindowsAround == { <<0, Days(14)>>, <<CovOcc, CovOcc + 1>> }

\* the sessions of list `all` with the identifier of session e
SameId(all, e) == { all[i] : i \in { j \in DOMAIN all : all[j].instance_id = e.instance_id } }

\* the fields of a session a request and materialize both resolve
Resolution(e) == <<e.instance_id, e.series_id, e.start_utc, e.end_utc, e.notes,
                   e.host_principal>>

\* the request names an occurrence the rule generates
OnOccurrence(c) ==
    /\ OnRecurring(c) /\ c.occurrence_start # None
    /\ KeyOf(c)[1] \in DOMAIN SERIES
    /\ Generates(SERIES[KeyOf(c)[1]], KeyOf(c)[2])

TopDay == U64_MAX \div TicksPerDay

\* open-ended rules on Thursday from the epoch, and a weekly rule that ends
\* after 45 days
TopRules ==
    { EventSeries(1, "Weekly", 3, None, 0, None, 2 * MinutesPerTick, "rule notes"),
      EventSeries(1, "Biweekly", 3, None, 0, None, 2 * MinutesPerTick, "rule notes"),
      EventSeries(1, "Monthly", 3, Some(1), 0, None, 2 * MinutesPerTick, "rule notes"),
      EventSeries(1, "Monthly", 3, Some(Last), 0, None, 2 * MinutesPerTick, "rule notes"),
      EventSeries(1, "Weekly", 3, None, 0, Some(Days(45)), 2 * MinutesPerTick, "rule notes") }

\* a month at the epoch, the last two ticks before u64::MAX, and the whole
\* range
TopWindows == { <<0, Days(30)>>, <<U64_MAX - 1, U64_MAX>>, <<0, U64_MAX>> }

\* the occurrence instants assign and unassign are asked for
TopOccurrenceStarts == { CovOcc, Days(TopDay - 2), U64_MAX - 1, U64_MAX }

\* a + b does not fit into a u64
u64_overflows(a, b) == a + b > U64_MAX

\* days_to_nanos(days) does not fit into a u64
days_overflow(days) == days * TicksPerDay > U64_MAX

\* one of the ymd_to_nanos calls of nth_weekday_of_month(year, month,
\* weekday, ordinal) overflows: that of the first (or last) day of the
\* month, or that of the target day
nth_weekday_overflows(year, month, weekday, ordinal) ==
    IF ordinal \in 1..4
    THEN LET first_wd == weekday_from_nanos(ymd_to_nanos(year, month, 1))
             days_until == (weekday + 7 - first_wd) % 7
             target_day == 1 + days_until + (ordinal - 1) * 7
         IN  \/ days_overflow(ymd_days(year, month, 1))
             \/ /\ target_day <= days_in_month(year, month)
                /\ days_overflow(ymd_days(year, month, target_day))
    ELSE LET last_day == days_in_month(year, month)
             last_wd == weekday_from_nanos(ymd_to_nanos(year, month, last_day))
             days_back == (last_wd + 7 - weekday) % 7
         IN  \/ days_overflow(ymd_days(year, month, last_day))
             \/ days_overflow(ymd_days(year, month, last_day - days_back))

InitTop ==
    /\ USERS = EmptyMap
    /\ SETTINGS = GlobalSettings_default
    /\ NOTIFICATIONS = EmptyMap
    /\ UUID_COUNTER = 0
    /\ SERIES \in {(1 :> r) : r \in TopRules}
    /\ OVERRIDES = EmptyMap
    /\ INSTANCES = EmptyMap
    /\ call = [op |-> "none"]
    /\ prev = [op |-> "none"]

\* no generate_occurrences is running
TopIdle == call.op = "generate_occurrences" => call.pc \in {"done", "trapped"}

TopFrame ==
    UNCHANGED <<USERS, SETTINGS, NOTIFICATIONS, UUID_COUNTER,
                SERIES, OVERRIDES, INSTANCES, prev>>

\* generate_occurrences(series, window_start, window_end) up to its loop:
\* the effective window, the early return, (year, month) of both ends, and
\* for Weekly | Biweekly the first occurrence.  `last` is the last instant
\* pushed, `wrapped` whether an operation has wrapped.
GenerateBegin(sid, window_start, window_end) ==
    LET series == SERIES[sid]
        effective_start == Max(window_start, series.start_date)
        effective_end == IF series.end_date = None THEN window_end
                         ELSE Min(window_end, unwrap_or(series.end_date, 0))
        c == [op |-> "generate_occurrences", pc |-> "done", series_id |-> sid,
              window_start |-> window_start, window_end |-> window_end,
              effective_start |-> effective_start, effective_end |-> effective_end,
              year |-> 0, month |-> 0, end_ym |-> <<0, 0>>, occ |-> 0,
              last |-> None, wrapped |-> FALSE]
        start_ym == nanos_to_ymd(effective_start)
        end_ym == nanos_to_ymd(effective_end)
        target_wd == series.weekday
        start_wd == weekday_from_nanos(effective_start)
        days_until == (target_wd + 7 - start_wd) % 7
    IN  /\ TopIdle
        /\ sid \in DOMAIN SERIES
        /\ TopFrame
        /\ IF effective_start >= effective_end THEN call' = c
           ELSE IF series.frequency = "Monthly"
           THEN call' = [c EXCEPT !.pc = "monthly_loop", !.year = start_ym[1],
                                  !.month = start_ym[2],
                                  !.end_ym = <<end_ym[1], end_ym[2]>>]
           ELSE IF u64_overflows(effective_start, days_until * TicksPerDay)
           THEN \/ call' = [c EXCEPT !.pc = "weekly_loop", !.wrapped = TRUE,
                                     !.occ = first_occ(series, effective_start)]
                \/ call' = [c EXCEPT !.pc = "trapped"]
           ELSE call' = [c EXCEPT !.pc = "weekly_loop",
                                  !.occ = first_occ(series, effective_start)]

\* one pass of `while occ < effective_end` of the Weekly | Biweekly arm
WeeklyLoopStep ==
    /\ call.op = "generate_occurrences" /\ call.pc = "weekly_loop"
    /\ TopFrame
    /\ LET series == SERIES[call.series_id]
           interval_nanos == interval_days(series) * TicksPerDay
           pushed == IF call.occ >= series.start_date THEN Some(call.occ) ELSE call.last
       IN  IF ~(call.occ < call.effective_end) THEN call' = [call EXCEPT !.pc = "done"]
           ELSE IF u64_overflows(call.occ, interval_nanos)
           THEN \/ call' = [call EXCEPT !.last = pushed, !.wrapped = TRUE,
                                        !.occ = u64_add(call.occ, interval_nanos)]
                \/ call' = [call EXCEPT !.pc = "trapped"]
           ELSE call' = [call EXCEPT !.last = pushed,
                                     !.occ = u64_add(call.occ, interval_nanos)]

\* one pass of the while loop of the Monthly arm
MonthlyLoopStep ==
    /\ call.op = "generate_occurrences" /\ call.pc = "monthly_loop"
    /\ TopFrame
    /\ LET series == SERIES[call.series_id]
           ordinal == unwrap_or(series.weekday_ordinal, 1)
           nth == nth_weekday_of_month(call.year, call.month, series.weekday, ordinal)
           occ == unwrap_or(nth, 0)
           pushed == IF nth # None /\ occ >= call.effective_start /\ occ < call.effective_end
                     THEN Some(occ) ELSE call.last
           next == IF call.month + 1 > 12
                   THEN [call EXCEPT !.last = pushed, !.month = 1, !.year = @ + 1]
                   ELSE [call EXCEPT !.last = pushed, !.month = @ + 1]
       IN  IF ~ ( \/ call.year < call.end_ym[1]
                  \/ call.year = call.end_ym[1] /\ call.month <= call.end_ym[2] )
           THEN call' = [call EXCEPT !.pc = "done"]
           ELSE IF nth_weekday_overflows(call.year, call.month, series.weekday, ordinal)
           THEN \/ call' = [next EXCEPT !.wrapped = TRUE]
                \/ call' = [call EXCEPT !.pc = "trapped"]
           ELSE call' = next

\* get_event_timing for an occurrence of rule sid without exception, as
\* assign_host and unassign_host call it first: occ_start + duration_nanos
GetEventTiming(sid, occurrence_start) ==
    LET c == [op |-> "get_event_timing", series_id |-> sid,
              occurrence_start |-> occurrence_start, ret |-> Err("none")]
        timing == get_event_timing(Some(sid), Some(occurrence_start),
                                   generate_instance_id(sid, occurrence_start))
    IN  /\ TopIdle
        /\ sid \in DOMAIN SERIES
        /\ TopFrame
        /\ IF u64_overflows(occurrence_start, duration_nanos(SERIES[sid]))
           THEN \/ call' = [c EXCEPT !.ret = timing]
                \/ call' = [c EXCEPT !.ret = Err("trap")]
           ELSE call' = [c EXCEPT !.ret = timing]

NextTop ==
    \/ \E w \in TopWindows : GenerateBegin(1, w[1], w[2])
    \/ WeeklyLoopStep
    \/ MonthlyLoopStep
    \/ \E t \in TopOccurrenceStarts : GetEventTiming(1, t)

SpecTop == InitTop /\ [][NextTop]_vars

\* a request runs to completion: a loop that can take a pass takes it
SpecTopLive == SpecTop /\ WF_vars(WeeklyLoopStep) /\ WF_vars(MonthlyLoopStep)

\* ------------------------------------------- claims on the top of the range

\* generate_occurrences is in one of its loops / has left it by its exit
\* condition
InLoop == call.op = "generate_occurrences" /\ call.pc \in {"weekly_loop", "monthly_loop"}

LoopExited == call.op = "generate_occurrences" /\ call.pc = "done"

\* C27: generate_occurrences terminates for every rule and every window,
\* window_end = u64::MAX with an open-ended rule included: a run that is in
\* the Weekly/Biweekly stepping loop or in the Monthly month loop reaches
\* the loop's exit condition.
C27_LoopsTerminate == InLoop ~> LoopExited

\* C28: the instant arithmetic of assign, unassign and materialize stays
\* within the unsigned 64-bit range: no run of generate_occurrences wraps
\* an instant or traps (effective_start + days_until days, occ + 7 or 14
\* days, the instants of the month's weekdays), and get_event_timing
\* answers <<t, t + default duration>> for every occurrence_start t.
C28_NoOverflow ==
    /\ call.op = "generate_occurrences" => ~call.wrapped /\ call.pc # "trapped"
    /\ call.op = "get_event_timing" =>
          /\ call.ret # Err("trap")
          /\ call.ret.ok =>
                call.ret.val = <<call.occurrence_start,
                                 call.occurrence_start
                                    + SERIES[call.series_id].default_duration_minutes
                                         \div MinutesPerTick>>

\* the exception request c found under its key, or one with nothing
\* overridden and not cancelled when it found none
ExceptionBefore(c) ==
    IF KeyOf(c) \in DOMAIN c.before.OVERRIDES THEN c.before.OVERRIDES[KeyOf(c)]
    ELSE [series_id |-> KeyOf(c)[1], occurrence_start_utc |-> KeyOf(c)[2],
          start_utc |-> None, end_utc |-> None, notes |-> None, cancelled |-> FALSE]

\* the fields of an exception that assign and unassign do not write
Untouched(o) == <<o.series_id, o.occurrence_start_utc, o.start_utc, o.end_utc, o.notes,
                  o.cancelled>>

\* C29: a successful assign or unassign on a recurring occurrence changes
\* only the host and the explicitly-cleared flag of the exception at that
\* occurrence key: that exception's overridden start, end, notes and
\* cancelled flag are as before (nothing overridden, not cancelled, when
\* the request created it), every other exception and every one-off
\* session is as before and no exception is added or removed elsewhere;
\* and no assign or unassign step changes a rule.
C29_Frame ==
    /\ []( (IsAssign(call) \/ IsUnassign(call)) /\ Succeeded(call) /\ OnRecurring(call) =>
             /\ DOMAIN OVERRIDES = DOMAIN call.before.OVERRIDES \cup {KeyOf(call)}
             /\ \A k \in DOMAIN call.before.OVERRIDES \ {KeyOf(call)} :
                   OVERRIDES[k] = call.before.OVERRIDES[k]
             /\ Untouched(OVERRIDES[KeyOf(call)]) = Untouched(ExceptionBefore(call))
             /\ INSTANCES = call.before.INSTANCES )
    /\ [][ IsAssign(call') \/ IsUnassign(call') => SERIES' = SERIES ]_vars

\* C29 witness: an assign succeeded on an occurrence whose exception
\* overrides start, end and notes and was explicitly cleared, with
\* exceptions stored for another occurrence and another rule; the
\* exception now holds the host and the same overrides.
C29_Witness ==
    /\ IsAssign(call) /\ Succeeded(call) /\ OnRecurring(call)
    /\ KeyOf(call) \in DOMAIN call.before.OVERRIDES
    /\ call.before.OVERRIDES[KeyOf(call)].host_cleared
    /\ call.before.OVERRIDES[KeyOf(call)].notes = Some("override notes")
    /\ OVERRIDES[KeyOf(call)].notes = Some("override notes")
    /\ OVERRIDES[KeyOf(call)].start_utc # None
    /\ OVERRIDES[KeyOf(call)].end_utc # None
    /\ OVERRIDES[KeyOf(call)].host_principal = Some("alice")
    /\ Cardinality(DOMAIN OVERRIDES) = 3

\* ------------------------------------------------- claims on the paused flag

\* the stored rules with the paused flag flipped on the rules of `ids`
FlipPaused(ids) ==
    [i \in DOMAIN list_all_series |->
        IF list_all_series[i].series_id \in ids
        THEN [list_all_series[i] EXCEPT !.paused = ~@]
        ELSE list_all_series[i]]

\* what materialize_events returns for window w when the rules are
\* `all_series` (its body, with the rule list as a parameter)
MaterializedWith(all_series, w) ==
    sort_by_key(
        push_one_offs(list_all_instances, w[1], w[2],
            push_all_series(all_series, 1, w[1], w[2], <<>>)))

\* C30: the output of materialize does not depend on any rule's paused
\* flag: in every reachable state and for every window, flipping the flag
\* on any set of stored rules, all else equal, leaves the result as it is;
\* a successful toggle_series_pause flips the flag of its rule and changes
\* nothing else, and an update_event_series that sets paused stores it.
C30_PausedIgnored ==
    /\ [](\A w \in RuleWindows : \A ids \in SUBSET DOMAIN SERIES :
             MaterializedWith(FlipPaused(ids), w) = materialize_events(w[1], w[2]))
    /\ [][ call'.op = "toggle_series_pause" /\ Succeeded(call') =>
              /\ SERIES' = [SERIES EXCEPT ![call'.series_id].paused = ~@]
              /\ OVERRIDES' = OVERRIDES /\ INSTANCES' = INSTANCES ]_vars
    /\ [][ call'.op = "update_event_series" /\ Succeeded(call')
              /\ call'.input.paused # None =>
              SERIES'[call'.series_id].paused = unwrap_or(call'.input.paused, FALSE) ]_vars

\* C30 witness: materialize returns the sessions of a rule that is paused.
C30_Witness ==
    /\ IsMat(call)
    /\ \E e \in Recurring(call) :
          /\ RuleOf(e) \in DOMAIN SERIES
          /\ SERIES[RuleOf(e)].paused
    /\ \E id \in DOMAIN SERIES : ~SERIES[id].paused

====
